---- MODULE Spec2Model ----
(***************************************************************************)
(* A model of the interception pipeline of claude-code-reverse:            *)
(*   src/src/proxy/streaming.ts  the SSE stream reconstructor (SSEParser)  *)
(*   src/src/proxy/server.ts     the proxy engine and the WebSocket fan-out *)
(*   src/src/storage/jsonl.ts    the capture log                           *)
(*                                                                         *)
(* Bytes and characters are strings.  An ASCII token such as "data: " or   *)
(* "{md}" stands for a run of ASCII bytes; "C3" and "A9" are the two bytes *)
(* of the UTF-8 encoding of one non-ASCII character, written "e'" once     *)
(* decoded; "FFFD" is the replacement character a decoder emits for a byte *)
(* sequence that is not a complete character.                              *)
(***************************************************************************)
EXTENDS Integers, Sequences, FiniteSets, TLC

VARIABLES
    \* ---- SSEParser fed chunk by chunk (streaming.ts) ----
    pStream,      \* the upstream byte stream being fed to the parser
    pPos,         \* number of bytes of pStream fed so far
    pParser,      \* the SSEParser: [buffer, accumulator]
    pChunks,      \* number of processChunk calls made so far
    \* ---- one proxied exchange per id (server.ts, handleProxyRequest) ----
    pc,           \* where each exchange stands
    capturedRequest, \* the CapturedRequest built at ingress
    isStreaming,  \* body.stream === true
    upBody,       \* the bytes the upstream sends as its response body
    upEncoding,   \* the upstream's content-encoding header
    upPos,        \* bytes of upBody delivered by 'data' events so far
    chunks,       \* the handler's chunks: Buffer[] array
    parser,       \* the exchange's SSEParser
    resStatus,    \* status set on the client response (0: none yet)
    resBody,      \* bytes handed to the client response, in order
    resEnded,     \* the client response has been ended
    clientOpen,   \* the client's connection is still open
    clientUnacked, \* bytes the streaming tee wrote that the client has not accepted yet
    \* ---- the HTTP messages of each exchange (server.ts, handleProxyRequest) ----
    clientRequest, \* the request as the client sent it
    upRequest,    \* the request sent to the upstream: proxyOptions and the body written
    upStatus,     \* the upstream's status code
    upHeaders,    \* the upstream's response headers
    resHeaders,   \* the headers set on the client response
    \* ---- JSONLStorage (jsonl.ts) ----
    logFile,      \* the bytes of messages.jsonl, in file order
    fileExists,   \* messages.jsonl exists
    initialFile,  \* the bytes an earlier run left in messages.jsonl
    writeStream,  \* the storage's writeStream is non-null
    streamState,  \* each fs.WriteStream the storage created: where it stands
    streamQueue,  \* the lines written to each stream and not yet in its file
    appended,     \* every entry ever handed to writeLine, in order
    clears,       \* number of clear() calls so far
    clearedAt,    \* how many entries had been handed to writeLine at the last clear()
    \* ---- WebSocket fan-out (server.ts, broadcast) ----
    wsClients,    \* the wsClients set
    wsState,      \* each socket's readyState
    wsSent,       \* the messages passed to each socket's send(), in order
    wsBuffered,   \* messages passed to send() and not yet transmitted
    published,    \* every message broadcast() was called with, in order
    \* ---- the HTTP server (server.ts, start and stop) ----
    serverState   \* "listening", "closing" once stop() was called, then "closed"

parserVars == <<pStream, pPos, pParser, pChunks>>

httpVars == <<clientRequest, upRequest, upStatus, upHeaders, resHeaders>>

exchangeVars == <<pc, capturedRequest, isStreaming, upBody, upEncoding, upPos,
                  chunks, parser, resStatus, resBody, resEnded, httpVars>>

clientVars == <<clientOpen, clientUnacked>>

storageVars == <<logFile, fileExists, initialFile, writeStream, streamState,
                 streamQueue, appended, clears, clearedAt>>

wsVars == <<wsClients, wsState, wsSent, wsBuffered, published>>

vars == <<pStream, pPos, pParser, pChunks,
          pc, capturedRequest, isStreaming, upBody, upEncoding, upPos,
          chunks, parser, resStatus, resBody, resEnded,
          clientOpen, clientUnacked,
          clientRequest, upRequest, upStatus, upHeaders, resHeaders,
          logFile, fileExists, initialFile, writeStream, streamState,
          streamQueue, appended, clears, clearedAt,
          wsClients, wsState, wsSent, wsBuffered, published, serverState>>

(***************************************************************************)
(* Bounds                                                                  *)
(***************************************************************************)
MaxFrames == 3

MaxExchanges == 2

MaxSockets == 2

MaxPublished == 3

MaxClears == 1

MaxAppends == 3

MaxEvents == 4

MaxDeltas == 2

(***************************************************************************)
(* Helpers on sequences                                                    *)
(***************************************************************************)
Last(s) == s[Len(s)]

Front(s) == SubSeq(s, 1, Len(s) - 1)

RECURSIVE Concat(_)
Concat(ss) == IF ss = <<>> THEN <<>> ELSE Head(ss) \o Concat(Tail(ss))

IsPrefix(s, t) == Len(s) <= Len(t) /\ SubSeq(t, 1, Len(s)) = s

(***************************************************************************)
(* Buffer.toString(): UTF-8 decoding of one chunk on its own               *)
(* (server.ts:159, chunk.toString()).  "C3" opens a two-byte character and *)
(* "A9" continues it; a lead byte with no continuation in the same chunk,  *)
(* or a continuation byte with no lead, decodes to U+FFFD.                 *)
(***************************************************************************)
RECURSIVE BufferToString(_)
BufferToString(bytes) ==
    IF bytes = <<>> THEN <<>>
    ELSE IF Head(bytes) = "C3"
         THEN IF Len(bytes) >= 2 /\ bytes[2] = "A9"
              THEN <<"e'">> \o BufferToString(Tail(Tail(bytes)))
              ELSE <<"FFFD">> \o BufferToString(Tail(bytes))
    ELSE IF Head(bytes) = "A9"
         THEN <<"FFFD">> \o BufferToString(Tail(bytes))
    ELSE <<Head(bytes)>> \o BufferToString(Tail(bytes))

(***************************************************************************)
(* String operations used by processChunk                                  *)
(***************************************************************************)
\* String.prototype.split('\n'): n newlines give n+1 parts
RECURSIVE SplitLines(_, _)
SplitLines(s, cur) ==
    IF s = <<>> THEN <<cur>>
    ELSE IF Head(s) = "nl" THEN <<cur>> \o SplitLines(Tail(s), <<>>)
    ELSE SplitLines(Tail(s), Append(cur, Head(s)))

Whitespace == {"sp", "cr", "nl"}

RECURSIVE TrimStart(_)
TrimStart(s) ==
    IF s # <<>> /\ Head(s) \in Whitespace THEN TrimStart(Tail(s)) ELSE s

RECURSIVE TrimEnd(_)
TrimEnd(s) ==
    IF s # <<>> /\ Last(s) \in Whitespace THEN TrimEnd(Front(s)) ELSE s

\* String.prototype.trim()
Trim(s) == TrimEnd(TrimStart(s))

(***************************************************************************)
(* createStreamAccumulator                                                 *)
(***************************************************************************)
NoBlock == [type |-> "null"]

ZeroUsage == [input_tokens |-> 0, output_tokens |-> 0]

createStreamAccumulator ==
    [messageId |-> "", model |-> "", content |-> <<>>,
     currentBlockIndex |-> -1, currentBlock |-> NoBlock,
     currentText |-> <<>>, currentJson |-> <<>>,
     stopReason |-> "null", usage |-> ZeroUsage]

(***************************************************************************)
(* JSON.parse of a frame payload.  The payloads of the protocol's events   *)
(* are tokens; a delta carries its characters between an opening token and *)
(* a closing "}".  Anything else is not valid JSON.                        *)
(***************************************************************************)
TextChars == {"a", "e'", "FFFD", "sp", "{k:", "1}"}

Invalid == [type |-> "invalid"]

\* a key the JSON text does not have
Undefined == [type |-> "undefined"]

\* { ...x }: the own properties of x, none when x is undefined
Spread(x) == IF x = Undefined THEN [type |-> "none"] ELSE x

JSONParseEvent(data) ==
    IF data = <<"{ms}">> THEN
        [type |-> "message_start", message |-> [type |-> "message"],
         id |-> "msg_1", model |-> "m",
         usage |-> [input_tokens |-> 5, output_tokens |-> 0]]
    ELSE IF data = <<"{ms_bad}">> THEN
        [type |-> "message_start", message |-> Undefined]
    ELSE IF data = <<"{bs_bad}">> THEN
        [type |-> "content_block_start", index |-> 2, content_block |-> Undefined]
    ELSE IF data = <<"{bs_text}">> THEN
        [type |-> "content_block_start", index |-> 0,
         content_block |-> [type |-> "text", text |-> <<>>]]
    ELSE IF data = <<"{bs_text:a}">> THEN
        [type |-> "content_block_start", index |-> 0,
         content_block |-> [type |-> "text", text |-> <<"a">>]]
    ELSE IF data = <<"{bs_tool}">> THEN
        [type |-> "content_block_start", index |-> 1,
         content_block |-> [type |-> "tool_use", id |-> "tu_1", name |-> "Bash"]]
    ELSE IF data = <<"{bs_tool_anon}">> THEN
        [type |-> "content_block_start", index |-> 1,
         content_block |-> [type |-> "tool_use", id |-> "undefined",
                            name |-> "undefined"]]
    ELSE IF data = <<"{bx}">> THEN [type |-> "content_block_stop", index |-> 0]
    ELSE IF data = <<"{md}">> THEN
        [type |-> "message_delta", stop_reason |-> "end_turn",
         hasUsage |-> TRUE, output_tokens |-> 2]
    ELSE IF data = <<"{mstop}">> THEN [type |-> "message_stop"]
    ELSE IF /\ Len(data) >= 2
            /\ Head(data) \in {"{td:", "{jd:"}
            /\ Last(data) = "}"
            /\ \A i \in 2..(Len(data) - 1) : data[i] \in TextChars
         THEN [type |-> "content_block_delta",
               delta |-> IF Head(data) = "{td:" THEN "text_delta" ELSE "input_json_delta",
               chars |-> SubSeq(data, 2, Len(data) - 1)]
    ELSE Invalid

\* JSON.parse of the accumulated partial_json of a tool_use block; the value
\* is {} when it throws
JSONParseInput(json) ==
    IF json = <<"a">> THEN [parsed |-> TRUE, value |-> "obj_a"]
    ELSE IF json = <<"{k:", "1}">> THEN [parsed |-> TRUE, value |-> "{k:1}"]
    ELSE [parsed |-> FALSE, value |-> "{}"]

(***************************************************************************)
(* parseSSELine                                                            *)
(***************************************************************************)
NoEvent == [event |-> "null", data |-> <<>>]

parseSSELine(line) ==
    IF ~(line # <<>> /\ Head(line) = "data: ") THEN NoEvent
    ELSE LET data == Tail(line) IN
         IF data = <<"[DONE]">> THEN [event |-> "done", data |-> <<>>]
         ELSE [event |-> "message", data |-> data]

(***************************************************************************)
(* processStreamEvent                                                      *)
(***************************************************************************)
\* x || ''
OrEmpty(x) == IF x = "undefined" THEN "" ELSE x

\* the block gone wrong: the input is never parsed
FinishedBlockInputDropped(acc) ==
    IF acc.currentBlock.type = "text"
    THEN <<[type |-> "text", text |-> acc.currentText]>>
    ELSE IF acc.currentBlock.type = "tool_use"
    THEN <<[type |-> "tool_use", id |-> OrEmpty(acc.currentBlock.id),
            name |-> OrEmpty(acc.currentBlock.name),
            input |-> "{}"]>>
    ELSE <<>>

FinishedBlock(acc) ==
    IF acc.currentBlock.type = "text"
    THEN <<[type |-> "text", text |-> acc.currentText]>>
    ELSE IF acc.currentBlock.type = "tool_use"
    THEN <<[type |-> "tool_use", id |-> OrEmpty(acc.currentBlock.id),
            name |-> OrEmpty(acc.currentBlock.name),
            input |-> IF acc.currentJson # <<>>
                      THEN JSONParseInput(acc.currentJson).value ELSE "{}"]>>
    ELSE <<>>

\* the seed gone wrong: the text of the start block is dropped
SeedTextIgnored(content_block) == <<>>

\* currentText after content_block_start: the text of a text block, or ''
SeedText(content_block) ==
    IF content_block.type = "text" THEN content_block.text ELSE <<>>

\* push gone wrong: the block is put in front
PushFront(content, blocks) == blocks \o content

\* accumulator.content.push(...)
Push(content, blocks) == content \o blocks

\* the stop gone wrong: with no block open it emits the text gathered so far
processStreamEventStrayStop(acc, ev) ==
    CASE ev.type = "message_start" ->
            IF ev.message = Undefined THEN acc
            ELSE [acc EXCEPT !.messageId = ev.id, !.model = ev.model,
                             !.usage = ev.usage]
      [] ev.type = "content_block_start" ->
            LET started == [acc EXCEPT !.currentBlockIndex = ev.index,
                                       !.currentBlock = Spread(ev.content_block),
                                       !.currentText = <<>>,
                                       !.currentJson = <<>>]
            IN IF ev.content_block = Undefined THEN started
               ELSE [started EXCEPT !.currentText = SeedText(ev.content_block)]
      [] ev.type = "content_block_delta" ->
            IF ev.delta = "text_delta" /\ ev.chars # <<>>
            THEN [acc EXCEPT !.currentText = @ \o ev.chars]
            ELSE IF ev.delta = "input_json_delta" /\ ev.chars # <<>>
            THEN [acc EXCEPT !.currentJson = @ \o ev.chars]
            ELSE acc
      [] ev.type = "content_block_stop" ->
            [acc EXCEPT !.content = IF acc.currentBlock # NoBlock
                                    THEN Push(@, FinishedBlock(acc))
                                    ELSE Push(@, <<[type |-> "text",
                                                    text |-> acc.currentText]>>),
                        !.currentBlock = NoBlock]
      [] ev.type = "message_delta" ->
            [acc EXCEPT !.stopReason = ev.stop_reason,
                        !.usage = IF ev.hasUsage
                                  THEN [@ EXCEPT !.output_tokens = ev.output_tokens]
                                  ELSE @]
      [] OTHER -> acc

\* processStreamEvent gone wrong: a content_block_start keeps the text and
\* the partial JSON gathered so far
processStreamEventKeepsText(acc, ev) ==
    CASE ev.type = "message_start" ->
            IF ev.message = Undefined THEN acc
            ELSE [acc EXCEPT !.messageId = ev.id, !.model = ev.model,
                             !.usage = ev.usage]
      [] ev.type = "content_block_start" ->
            LET started == [acc EXCEPT !.currentBlockIndex = ev.index,
                                       !.currentBlock = Spread(ev.content_block)]
            IN IF ev.content_block = Undefined THEN started
               ELSE [started EXCEPT !.currentText = @ \o SeedText(ev.content_block)]
      [] ev.type = "content_block_delta" ->
            IF ev.delta = "text_delta" /\ ev.chars # <<>>
            THEN [acc EXCEPT !.currentText = @ \o ev.chars]
            ELSE IF ev.delta = "input_json_delta" /\ ev.chars # <<>>
            THEN [acc EXCEPT !.currentJson = @ \o ev.chars]
            ELSE acc
      [] ev.type = "content_block_stop" ->
            [acc EXCEPT !.content = IF acc.currentBlock # NoBlock
                                    THEN Push(@, FinishedBlock(acc)) ELSE @,
                        !.currentBlock = NoBlock]
      [] ev.type = "message_delta" ->
            [acc EXCEPT !.stopReason = ev.stop_reason,
                        !.usage = IF ev.hasUsage
                                  THEN [@ EXCEPT !.output_tokens = ev.output_tokens]
                                  ELSE @]
      [] OTHER -> acc

\* What the accumulator is when processStreamEvent returns or throws: a
\* statement that reads a property of undefined throws, and the assignments
\* made before it stay.
processStreamEvent(acc, ev) ==
    CASE ev.type = "message_start" ->
            IF ev.message = Undefined THEN acc
            ELSE [acc EXCEPT !.messageId = ev.id, !.model = ev.model,
                             !.usage = ev.usage]
      [] ev.type = "content_block_start" ->
            LET started == [acc EXCEPT !.currentBlockIndex = ev.index,
                                       !.currentBlock = Spread(ev.content_block),
                                       !.currentText = <<>>,
                                       !.currentJson = <<>>]
            IN IF ev.content_block = Undefined THEN started
               ELSE [started EXCEPT !.currentText = SeedText(ev.content_block)]
      [] ev.type = "content_block_delta" ->
            IF ev.delta = "text_delta" /\ ev.chars # <<>>
            THEN [acc EXCEPT !.currentText = @ \o ev.chars]
            ELSE IF ev.delta = "input_json_delta" /\ ev.chars # <<>>
            THEN [acc EXCEPT !.currentJson = @ \o ev.chars]
            ELSE acc
      [] ev.type = "content_block_stop" ->
            [acc EXCEPT !.content = IF acc.currentBlock # NoBlock
                                    THEN Push(@, FinishedBlock(acc)) ELSE @,
                        !.currentBlock = NoBlock]
      [] ev.type = "message_delta" ->
            [acc EXCEPT !.stopReason = ev.stop_reason,
                        !.usage = IF ev.hasUsage
                                  THEN [@ EXCEPT !.output_tokens = ev.output_tokens]
                                  ELSE @]
      [] OTHER -> acc

(***************************************************************************)
(* SSEParser                                                               *)
(***************************************************************************)
NewSSEParser == [buffer |-> <<>>, accumulator |-> createStreamAccumulator]

\* the loop body gone wrong: a payload that does not parse empties the
\* accumulator
ProcessLineResetOnInvalid(acc, line) ==
    LET trimmed == Trim(line) IN
    IF trimmed = <<>> \/ Head(trimmed) = ":" THEN acc
    ELSE LET sseEvent == parseSSELine(trimmed) IN
         IF sseEvent.event = "message" /\ sseEvent.data # <<>>
         THEN LET parsed == JSONParseEvent(sseEvent.data) IN
              IF parsed = Invalid THEN createStreamAccumulator
              ELSE processStreamEvent(acc, parsed)
         ELSE acc

\* the body of the for loop of processChunk, for one complete line
ProcessLine(acc, line) ==
    LET trimmed == Trim(line) IN
    IF trimmed = <<>> \/ Head(trimmed) = ":" THEN acc
    ELSE LET sseEvent == parseSSELine(trimmed) IN
         IF sseEvent.event = "message" /\ sseEvent.data # <<>>
         THEN LET parsed == JSONParseEvent(sseEvent.data) IN
              IF parsed = Invalid THEN acc ELSE processStreamEvent(acc, parsed)
         ELSE acc

RECURSIVE ProcessLines(_, _)
ProcessLines(acc, lines) ==
    IF lines = <<>> THEN acc
    ELSE ProcessLines(ProcessLine(acc, Head(lines)), Tail(lines))

\* SSEParser.processChunk(chunk), chunk a decoded string
processChunk(this, chunk) ==
    LET lines == SplitLines(this.buffer \o chunk, <<>>) IN
    [buffer |-> Last(lines),
     accumulator |-> ProcessLines(this.accumulator, Front(lines))]

(***************************************************************************)
(* JSONLStorage (jsonl.ts)                                                 *)
(***************************************************************************)
Exchanges == 1..MaxExchanges

Sockets == 1..MaxSockets

\* the write streams a storage creates over its life: the first on the first
\* write, and a new one on the first write after each clear()
Streams == 1..(MaxClears + 2)

RequestEntry(request) == [type |-> "request", data |-> request]

ResponseEntry(response) == [type |-> "response", data |-> response]

\* the id that pairs an entry: data.id of a request, data.request_id of a response
EntryId(entry) ==
    IF entry.type = "request" THEN entry.data.id ELSE entry.data.request_id

(***************************************************************************)
(* JSON.stringify and JSON.parse of a LogEntry.  The text of an entry is a *)
(* run of tokens between "{" and "}": its type, its scalar fields in a     *)
(* fixed order, and for a response its content between "[" and "]", a text *)
(* block being its characters between two quotes.  A newline inside a      *)
(* string is written as the escape \n; a field whose value is undefined is *)
(* left out.                                                               *)
(***************************************************************************)
Digits == 0..9

IsNumber(tok) == \E n \in Digits : ToString(n) = tok

NumberOf(tok) == CHOOSE n \in Digits : ToString(n) = tok

\* escaping gone wrong: a newline is written as it is
EscapeNothing(text) == text

EscapeString(text) ==
    [i \in DOMAIN text |-> IF text[i] = "nl" THEN "\\n" ELSE text[i]]

UnescapeString(chars) ==
    [i \in DOMAIN chars |-> IF chars[i] = "\\n" THEN "nl" ELSE chars[i]]

RECURSIVE StringifyBlocks(_)
StringifyBlocks(blocks) ==
    IF blocks = <<>> THEN <<>>
    ELSE LET block == Head(blocks) IN
         (IF block.type = "text"
          THEN <<"\"">> \o EscapeString(block.text) \o <<"\"">>
          ELSE <<"tool_use", block.id, block.name, block.input>>)
         \o StringifyBlocks(Tail(blocks))

JSONStringify(entry) ==
    IF entry.type = "request"
    THEN <<"{", "request", ToString(entry.data.id), entry.data.model,
           entry.data.messages>>
         \o (IF entry.data.stream = "undefined" THEN <<>> ELSE <<entry.data.stream>>)
         \o <<"}">>
    ELSE <<"{", "response", ToString(entry.data.request_id),
           entry.data.stop_reason,
           ToString(entry.data.usage.input_tokens),
           ToString(entry.data.usage.output_tokens),
           entry.data.model, "[">>
         \o StringifyBlocks(entry.data.content)
         \o <<"]", "}">>

RECURSIVE ParseBlocks(_)
ParseBlocks(toks) ==
    IF toks = <<>> THEN [ok |-> TRUE, blocks |-> <<>>]
    ELSE IF Head(toks) = "tool_use" /\ Len(toks) >= 4
    THEN LET rest == ParseBlocks(SubSeq(toks, 5, Len(toks))) IN
         [ok |-> rest.ok,
          blocks |-> <<[type |-> "tool_use", id |-> toks[2],
                        name |-> toks[3], input |-> toks[4]]>> \o rest.blocks]
    ELSE IF Head(toks) = "\"" /\ \E i \in 2..Len(toks) : toks[i] = "\""
    THEN LET close == CHOOSE i \in 2..Len(toks) :
                        toks[i] = "\"" /\ \A j \in 2..(i - 1) : toks[j] # "\""
             rest == ParseBlocks(SubSeq(toks, close + 1, Len(toks)))
         IN [ok |-> rest.ok,
             blocks |-> <<[type |-> "text",
                           text |-> UnescapeString(SubSeq(toks, 2, close - 1))]>>
                        \o rest.blocks]
    ELSE [ok |-> FALSE, blocks |-> <<>>]

\* JSON.parse(line): the LogEntry, or Invalid when it throws
JSONParseLine(line) ==
    IF /\ Len(line) \in {6, 7}
       /\ line[1] = "{" /\ line[2] = "request" /\ Last(line) = "}"
       /\ IsNumber(line[3])
    THEN [type |-> "request",
          data |-> [id |-> NumberOf(line[3]), model |-> line[4],
                    messages |-> line[5],
                    stream |-> IF Len(line) = 7 THEN line[6] ELSE "undefined"]]
    ELSE IF /\ Len(line) >= 10
            /\ line[1] = "{" /\ line[2] = "response" /\ Last(line) = "}"
            /\ IsNumber(line[3]) /\ IsNumber(line[5]) /\ IsNumber(line[6])
            /\ line[8] = "[" /\ line[Len(line) - 1] = "]"
            /\ ParseBlocks(SubSeq(line, 9, Len(line) - 2)).ok
    THEN [type |-> "response",
          data |-> [request_id |-> NumberOf(line[3]),
                    content |-> ParseBlocks(SubSeq(line, 9, Len(line) - 2)).blocks,
                    stop_reason |-> line[4],
                    usage |-> [input_tokens |-> NumberOf(line[5]),
                               output_tokens |-> NumberOf(line[6])],
                    model |-> line[7]]]
    ELSE Invalid

(***************************************************************************)
(* JSONLStorage: the write side                                            *)
(***************************************************************************)
\* the stream the storage holds, or the one it creates next: clear() and
\* close() each drop the stream they find, and stop() calls close() once
CurrentStream == clears + (IF serverState = "listening" THEN 0 ELSE 1) + 1

\* getWriteStream(): fs.createWriteStream(filePath, {flags: 'a'}) when there
\* is no stream; the stream opens the file later, on its own
getWriteStream ==
    IF writeStream THEN streamState
    ELSE [streamState EXCEPT ![CurrentStream] = "opening"]

\* writeLine: stream.write(JSON.stringify(entry) + '\n') queues the line in
\* the stream
writeLine(entry) ==
    /\ writeStream' = TRUE
    /\ streamState' = getWriteStream
    /\ streamQueue' = [streamQueue EXCEPT ![CurrentStream] =
                            Append(@, JSONStringify(entry) \o <<"nl">>)]
    /\ appended' = Append(appended, entry)
    /\ UNCHANGED <<logFile, fileExists, initialFile, clears, clearedAt>>

logRequest(request) == writeLine(RequestEntry(request))

\* logResponse gone wrong: the line is written twice
logResponseTwice(response) ==
    /\ writeStream' = TRUE
    /\ streamState' = getWriteStream
    /\ streamQueue' = [streamQueue EXCEPT ![CurrentStream] =
                            @ \o << JSONStringify(ResponseEntry(response)) \o <<"nl">>,
                                    JSONStringify(ResponseEntry(response)) \o <<"nl">> >>]
    /\ appended' = appended \o <<ResponseEntry(response), ResponseEntry(response)>>
    /\ UNCHANGED <<logFile, fileExists, initialFile, clears, clearedAt>>

logResponse(response) == writeLine(ResponseEntry(response))

\* clear(): close and forget the write stream, unlink the file.  close()
\* ends the stream, which still writes out what is queued in it: a stream
\* that had opened the file writes to the unlinked file, one that had not
\* opened it yet will open the path as it is then.
\* clear() gone wrong: the stream is closed but the file is left in place
clearKeepsFile ==
    /\ writeStream' = FALSE
    /\ clears' = clears + 1
    /\ clearedAt' = Len(appended)
    /\ UNCHANGED <<logFile, fileExists, initialFile, streamState, streamQueue,
                   appended>>

clear ==
    /\ writeStream' = FALSE
    /\ streamState' = [k \in Streams |->
                          IF streamState[k] = "open" THEN "orphan" ELSE streamState[k]]
    /\ logFile' = <<>>
    /\ fileExists' = FALSE
    /\ clears' = clears + 1
    /\ clearedAt' = Len(appended)
    /\ UNCHANGED <<initialFile, streamQueue, appended>>

(***************************************************************************)
(* JSONLStorage: the read side                                             *)
(***************************************************************************)
\* readAll() on a file with the given bytes
ReadFile(exists, content) ==
    IF ~exists THEN <<>>
    ELSE LET lines == SelectSeq(SplitLines(Trim(content), <<>>),
                                LAMBDA line : line # <<>>)
             parsed == [i \in DOMAIN lines |-> JSONParseLine(lines[i])]
         IN SelectSeq(parsed, LAMBDA entry : entry # Invalid)

readAll == ReadFile(fileExists, logFile)

Null == [type |-> "null"]

\* the loop that indexes the responses by request_id: Map.set, so the last
\* response of an id replaces the earlier ones
\* the index gone wrong: the first response of an id is kept
RECURSIVE IndexResponsesFirstWins(_, _)
IndexResponsesFirstWins(entries, responseMap) ==
    IF entries = <<>> THEN responseMap
    ELSE LET entry == Head(entries) IN
         IndexResponsesFirstWins(Tail(entries),
            IF entry.type = "response" /\ entry.data.request_id \notin DOMAIN responseMap
            THEN [id \in DOMAIN responseMap \cup {entry.data.request_id} |->
                    IF id = entry.data.request_id THEN entry.data
                    ELSE responseMap[id]]
            ELSE responseMap)

RECURSIVE IndexResponses(_, _)
IndexResponses(entries, responseMap) ==
    IF entries = <<>> THEN responseMap
    ELSE LET entry == Head(entries) IN
         IndexResponses(Tail(entries),
            IF entry.type = "response"
            THEN [id \in DOMAIN responseMap \cup {entry.data.request_id} |->
                    IF id = entry.data.request_id THEN entry.data
                    ELSE responseMap[id]]
            ELSE responseMap)

PairsOf(entries) ==
    LET responseMap == IndexResponses(entries, <<>>)
        requests == SelectSeq(entries, LAMBDA entry : entry.type = "request")
    IN [i \in DOMAIN requests |->
            [request |-> requests[i].data,
             response |-> IF requests[i].data.id \in DOMAIN responseMap
                          THEN responseMap[requests[i].data.id] ELSE Null]]

getRequestResponsePairs == PairsOf(readAll)

(***************************************************************************)
(* ProxyServer.broadcast                                                   *)
(***************************************************************************)
\* broadcast gone wrong: the newest message goes to the head of the queue
broadcastNewestFirst(message) ==
    /\ wsSent' = [s \in Sockets |->
                    IF s \in wsClients /\ wsState[s] = "open"
                    THEN <<message>> \o wsSent[s] ELSE wsSent[s]]
    /\ wsBuffered' = [s \in Sockets |->
                    IF s \in wsClients /\ wsState[s] = "open"
                    THEN wsBuffered[s] + 1 ELSE wsBuffered[s]]
    /\ published' = Append(published, message)
    /\ UNCHANGED <<wsClients, wsState>>

broadcast(message) ==
    /\ wsSent' = [s \in Sockets |->
                    IF s \in wsClients /\ wsState[s] = "open"
                    THEN Append(wsSent[s], message) ELSE wsSent[s]]
    /\ wsBuffered' = [s \in Sockets |->
                    IF s \in wsClients /\ wsState[s] = "open"
                    THEN wsBuffered[s] + 1 ELSE wsBuffered[s]]
    /\ published' = Append(published, message)
    /\ UNCHANGED <<wsClients, wsState>>

(***************************************************************************)
(* ProxyServer.handleProxyRequest                                          *)
(***************************************************************************)
\* the request bodies a client posts: a streaming request, a non-streaming
\* one, and a body that is not JSON
RequestBodies == {"{model,stream:true}", "{model}", "not json"}

\* JSON.parse(req.body.toString()), {} when it throws or when there is no
\* body to parse (server.ts:71-78)
ParsedBody(body) ==
    IF body = "{model,stream:true}"
    THEN [model |-> "m", messages |-> "[msgs]", stream |-> "true"]
    ELSE IF body = "{model}"
    THEN [model |-> "m", messages |-> "[msgs]", stream |-> "undefined"]
    ELSE [model |-> "undefined", messages |-> "undefined", stream |-> "undefined"]

NoRequest == [id |-> 0, model |-> "", messages |-> "[]", stream |-> "undefined"]

CapturedRequestOf(requestId, body) ==
    [id |-> requestId,
     model |-> IF ParsedBody(body).model = "undefined" THEN "unknown"
               ELSE ParsedBody(body).model,
     messages |-> IF ParsedBody(body).messages = "undefined" THEN "[]"
                  ELSE ParsedBody(body).messages,
     stream |-> ParsedBody(body).stream]

ANTHROPIC_API_HOST == "api.anthropic.com"

\* the connection-level headers neither direction passes on
HopByHop == {"connection", "keep-alive", "transfer-encoding"}

\* a header set is a set of <<name, value>> pairs; Node gives the names of
\* received headers in lower case
HasHeader(headers, name) == \E h \in headers : h[1] = name

SetHeader(headers, name, value) ==
    { h \in headers : h[1] # name } \cup { <<name, value>> }

JSONHeaders == { <<"host", "localhost:3456">>, <<"content-type", "application/json">> }

\* the request of a client that posts a small body to /v1/messages
RequestWith(body) ==
    [method |-> "POST", pathname |-> "/v1/messages", search |-> "",
     headers |-> JSONHeaders, body |-> body, length |-> 1]

NoClientRequest ==
    [method |-> "", pathname |-> "", search |-> "", headers |-> {},
     body |-> "", length |-> 0]

NoUpRequest == [method |-> "", path |-> "", search |-> "", headers |-> {}, body |-> ""]

\* the limit of express.raw({ type: '*/*', limit: '50mb' }), in bytes
BodyLimit == 52428800

\* express.raw reads the body of a request that has one and carries a
\* content-type (any type matches '*/*', none does not)
BodyIsRead(req) == req.length > 0 /\ HasHeader(req.headers, "content-type")

\* express.raw answers 413 to a body longer than the limit
PayloadTooLarge(req) == BodyIsRead(req) /\ req.length > BodyLimit

\* req.body as the handler finds it: the Buffer read, or the empty object
RawBody(req) == IF BodyIsRead(req) THEN req.body ELSE "{}"

\* proxyOptions.headers (server.ts:98-113)
ProxyHeaders(headers) ==
    { h \in SetHeader(headers, "host", ANTHROPIC_API_HOST) : h[1] \notin HopByHop }

\* req.path: the pathname of the request's URL, without the query string
ReqPath(req) == [pathname |-> req.pathname, search |-> ""]

\* proxyOptions and the body written to proxyReq (server.ts:98-113, 139-143):
\* the request target is proxyOptions.path, i.e. req.path
ProxyRequestOf(req) ==
    [method |-> req.method,
     path |-> ReqPath(req).pathname,
     search |-> ReqPath(req).search,
     headers |-> ProxyHeaders(req.headers),
     body |-> IF RawBody(req) # "{}" THEN RawBody(req) ELSE ""]

\* handleProxyRequest for the request req of exchange e.
\* requestId = uuidv4(): fresh per exchange; exchange e is given id e, and the
\* exchanges arrive in the order of their ids
proxyRequest(e, req) ==
    /\ serverState = "listening"
    /\ pc[e] = "idle"
    /\ e > 1 => pc[e - 1] # "idle"
    /\ LET body == RawBody(req)
           request == CapturedRequestOf(e, body) IN
        /\ capturedRequest' = [capturedRequest EXCEPT ![e] = request]
        /\ isStreaming' = [isStreaming EXCEPT ![e] = (ParsedBody(body).stream = "true")]
        /\ logRequest(request)
        /\ broadcast([type |-> "request", data |-> request])
    /\ clientRequest' = [clientRequest EXCEPT ![e] = req]
    /\ upRequest' = [upRequest EXCEPT ![e] = ProxyRequestOf(req)]
    /\ resHeaders' = [resHeaders EXCEPT ![e] = { <<"access-control-allow-origin", "*">> }]
    /\ pc' = [pc EXCEPT ![e] = "connecting"]
    /\ UNCHANGED <<upBody, upEncoding, upPos, chunks, parser, upStatus, upHeaders,
                   resStatus, resBody, resEnded, clientVars, parserVars, serverState>>

handleProxyRequest(e) == \E body \in RequestBodies : proxyRequest(e, RequestWith(body))

\* the record gone wrong: the usage of the accumulator is left out
StreamedResponseNoUsage(requestId, accumulator) ==
    [request_id |-> requestId,
     content |-> accumulator.content,
     stop_reason |-> accumulator.stopReason,
     usage |-> ZeroUsage,
     model |-> accumulator.model]

\* the CapturedResponse built from the accumulator (server.ts:168-176)
StreamedResponse(requestId, accumulator) ==
    [request_id |-> requestId,
     content |-> accumulator.content,
     stop_reason |-> accumulator.stopReason,
     usage |-> accumulator.usage,
     model |-> accumulator.model]

\* proxyReq.on('error'): the upstream connection failed
ErrorBody == <<"{error:Proxy request failed,message}">>

\* the error handler gone wrong: it also records an empty response
proxyReqErrorRecorded(e) ==
    /\ pc[e] = "connecting"
    /\ resStatus' = [resStatus EXCEPT ![e] = 502]
    /\ resBody' = [resBody EXCEPT ![e] = ErrorBody]
    /\ resEnded' = [resEnded EXCEPT ![e] = TRUE]
    /\ pc' = [pc EXCEPT ![e] = "failed"]
    /\ logResponse(StreamedResponse(e, createStreamAccumulator))
    /\ UNCHANGED <<capturedRequest, isStreaming, upBody, upEncoding, upPos,
                   chunks, parser, clientVars, wsVars, parserVars, httpVars, serverState>>

proxyReqError(e) ==
    /\ pc[e] = "connecting"
    /\ resStatus' = [resStatus EXCEPT ![e] = 502]
    /\ resBody' = [resBody EXCEPT ![e] = ErrorBody]
    /\ resEnded' = [resEnded EXCEPT ![e] = TRUE]
    /\ pc' = [pc EXCEPT ![e] = "failed"]
    /\ UNCHANGED <<capturedRequest, isStreaming, upBody, upEncoding, upPos,
                   chunks, parser, clientVars, storageVars, wsVars, parserVars, httpVars, serverState>>

\* what the upstream may answer: SSE bodies to a streaming request, JSON
\* bodies (plain or gzipped, sound or damaged) to the others
SSEHeaders == { <<"content-type", "text/event-stream">> }

PlainHeaders == { <<"content-type", "application/json">> }

GzipHeaders == { <<"content-type", "application/json">>, <<"content-encoding", "gzip">> }

StreamingResponses ==
    { [statusCode |-> 200, headers |-> SSEHeaders,
       body |-> <<"data: ", "{md}", "nl">>],
      [statusCode |-> 200, headers |-> SSEHeaders,
       body |-> <<"data: ", "{ms}", "nl">>] }

NonStreamingResponses ==
    { [statusCode |-> 200, headers |-> PlainHeaders, body |-> <<"{resp", "}">>],
      [statusCode |-> 200, headers |-> PlainHeaders, body |-> <<"{resp">>],
      [statusCode |-> 200, headers |-> GzipHeaders, body |-> <<"gz:{resp}", "crc">>],
      [statusCode |-> 200, headers |-> GzipHeaders, body |-> <<"gz:{resp}">>] }

\* proxyRes.headers['content-encoding'] (server.ts:196)
ContentEncoding(headers) ==
    IF HasHeader(headers, "content-encoding")
    THEN (CHOOSE h \in headers : h[1] = "content-encoding")[2]
    ELSE "identity"

\* the headers set on the client response (server.ts:121-125): a header
\* with a falsy value is left out, and so are the connection-level ones
RECURSIVE ForwardHeaders(_, _)
ForwardHeaders(set, upstream) ==
    IF upstream = {} THEN set
    ELSE LET h == CHOOSE x \in upstream : TRUE IN
         ForwardHeaders(IF h[2] # "" /\ h[1] \notin HopByHop
                        THEN SetHeader(set, h[1], h[2]) ELSE set,
                        upstream \ {h})

\* the https.request callback: status and headers are forwarded, then the
\* handler of the branch is installed
proxyRes(e, r) ==
    /\ pc[e] = "connecting"
    /\ upBody' = [upBody EXCEPT ![e] = r.body]
    /\ upEncoding' = [upEncoding EXCEPT ![e] = ContentEncoding(r.headers)]
    /\ upStatus' = [upStatus EXCEPT ![e] = r.statusCode]
    /\ upHeaders' = [upHeaders EXCEPT ![e] = r.headers]
    /\ resStatus' = [resStatus EXCEPT ![e] = r.statusCode]
    /\ resHeaders' = [resHeaders EXCEPT ![e] = ForwardHeaders(@, r.headers)]
    /\ parser' = [parser EXCEPT ![e] = NewSSEParser]
    /\ chunks' = [chunks EXCEPT ![e] = <<>>]
    /\ pc' = [pc EXCEPT ![e] = IF isStreaming[e] THEN "streaming" ELSE "buffering"]
    /\ UNCHANGED <<capturedRequest, isStreaming, upPos, resBody, resEnded,
                   clientRequest, upRequest,
                   clientVars, storageVars, wsVars, parserVars, serverState>>

proxyResponse(e) ==
    \E r \in (IF isStreaming[e] THEN StreamingResponses ELSE NonStreamingResponses) :
        proxyRes(e, r)

(***************************************************************************)
(* ProxyServer.handleStreamingResponse                                     *)
(***************************************************************************)
\* res.write(chunk) gone wrong: the chunk lands ahead of the earlier ones
resWriteOutOfOrder(written, chunk) == chunk \o written

\* res.write(chunk): the chunk is added after what was written before
resWrite(written, chunk) == written \o chunk

\* the 'data' handler gone wrong: one parser is shared by all exchanges
streamingDataSharedParser(e) ==
    /\ pc[e] = "streaming"
    /\ \E n \in 1..(Len(upBody[e]) - upPos[e]) :
        LET chunk == SubSeq(upBody[e], upPos[e] + 1, upPos[e] + n) IN
        /\ upPos' = [upPos EXCEPT ![e] = @ + n]
        /\ chunks' = [chunks EXCEPT ![e] = Append(@, chunk)]
        /\ resBody' = [resBody EXCEPT ![e] = resWrite(@, chunk)]
        /\ clientUnacked' = [clientUnacked EXCEPT ![e] =
                                IF clientOpen[e] THEN @ + n ELSE @]
        /\ parser' = [x \in Exchanges |-> processChunk(parser[x], BufferToString(chunk))]
    /\ UNCHANGED <<pc, capturedRequest, isStreaming, upBody, upEncoding,
                   resStatus, resEnded, clientOpen, storageVars, wsVars, parserVars,
                   httpVars, serverState>>

\* proxyRes.on('data') of the streaming branch: the next n bytes arrive
streamingData(e) ==
    /\ pc[e] = "streaming"
    /\ \E n \in 1..(Len(upBody[e]) - upPos[e]) :
        LET chunk == SubSeq(upBody[e], upPos[e] + 1, upPos[e] + n) IN
        /\ upPos' = [upPos EXCEPT ![e] = @ + n]
        /\ chunks' = [chunks EXCEPT ![e] = Append(@, chunk)]
        /\ resBody' = [resBody EXCEPT ![e] = resWrite(@, chunk)]
        /\ clientUnacked' = [clientUnacked EXCEPT ![e] =
                                IF clientOpen[e] THEN @ + n ELSE @]
        /\ parser' = [parser EXCEPT ![e] = processChunk(@, BufferToString(chunk))]
    /\ UNCHANGED <<pc, capturedRequest, isStreaming, upBody, upEncoding,
                   resStatus, resEnded, clientOpen, storageVars, wsVars, parserVars, httpVars, serverState>>

\* the 'end' handler gone wrong: the record is logged but not broadcast
streamingEndUnpublished(e) ==
    /\ pc[e] = "streaming"
    /\ upPos[e] = Len(upBody[e])
    /\ resEnded' = [resEnded EXCEPT ![e] = TRUE]
    /\ logResponse(StreamedResponse(e, parser[e].accumulator))
    /\ pc' = [pc EXCEPT ![e] = "done"]
    /\ UNCHANGED <<capturedRequest, isStreaming, upBody, upEncoding, upPos,
                   chunks, parser, resStatus, resBody, clientVars, wsVars,
                   parserVars, httpVars, serverState>>

\* the 'end' handler gone wrong: what is left in the parser's buffer is
\* processed as one more line before the record is built
streamingEndFlushed(e) ==
    /\ pc[e] = "streaming"
    /\ upPos[e] = Len(upBody[e])
    /\ resEnded' = [resEnded EXCEPT ![e] = TRUE]
    /\ LET capturedResponse ==
              StreamedResponse(e, processChunk(parser[e], <<"nl">>).accumulator) IN
        /\ logResponse(capturedResponse)
        /\ broadcast([type |-> "response", data |-> capturedResponse])
    /\ pc' = [pc EXCEPT ![e] = "done"]
    /\ UNCHANGED <<capturedRequest, isStreaming, upBody, upEncoding, upPos,
                   chunks, parser, resStatus, resBody, clientVars, parserVars, httpVars, serverState>>

\* proxyRes.on('end') of the streaming branch
streamingEnd(e) ==
    /\ pc[e] = "streaming"
    /\ upPos[e] = Len(upBody[e])
    /\ resEnded' = [resEnded EXCEPT ![e] = TRUE]
    /\ LET capturedResponse == StreamedResponse(e, parser[e].accumulator) IN
        /\ logResponse(capturedResponse)
        /\ broadcast([type |-> "response", data |-> capturedResponse])
    /\ pc' = [pc EXCEPT ![e] = "done"]
    /\ UNCHANGED <<capturedRequest, isStreaming, upBody, upEncoding, upPos,
                   chunks, parser, resStatus, resBody, clientVars, parserVars, httpVars, serverState>>

\* proxyRes.on('error') of the streaming branch: the upstream stream breaks
\* off; no 'end' follows
streamingError(e) ==
    /\ pc[e] = "streaming"
    /\ resEnded' = [resEnded EXCEPT ![e] = TRUE]
    /\ pc' = [pc EXCEPT ![e] = "errored"]
    /\ UNCHANGED <<capturedRequest, isStreaming, upBody, upEncoding, upPos,
                   chunks, parser, resStatus, resBody, clientVars,
                   storageVars, wsVars, parserVars, httpVars, serverState>>

(***************************************************************************)
(* ProxyServer.handleNonStreamingResponse                                  *)
(***************************************************************************)
nonStreamingData(e) ==
    /\ pc[e] = "buffering"
    /\ \E n \in 1..(Len(upBody[e]) - upPos[e]) :
        /\ upPos' = [upPos EXCEPT ![e] = @ + n]
        /\ chunks' = [chunks EXCEPT ![e] =
                        Append(@, SubSeq(upBody[e], upPos[e] + 1, upPos[e] + n))]
    /\ UNCHANGED <<pc, capturedRequest, isStreaming, upBody, upEncoding, parser,
                   resStatus, resBody, resEnded, clientVars,
                   storageVars, wsVars, parserVars, httpVars, serverState>>

\* proxyRes.on('end'): res.send(Buffer.concat(chunks)); the record is made
\* later, when decompressBuffer settles
nonStreamingEnd(e) ==
    /\ pc[e] = "buffering"
    /\ upPos[e] = Len(upBody[e])
    /\ resBody' = [resBody EXCEPT ![e] = Concat(chunks[e])]
    /\ resEnded' = [resEnded EXCEPT ![e] = TRUE]
    /\ pc' = [pc EXCEPT ![e] = "decompressing"]
    /\ UNCHANGED <<capturedRequest, isStreaming, upBody, upEncoding, upPos,
                   chunks, parser, resStatus, clientVars,
                   storageVars, wsVars, parserVars, httpVars, serverState>>

\* the upstream connection breaks off while the body is being buffered:
\* proxyRes has no 'error' listener here, 'end' never comes and no handler
\* of the exchange runs again
nonStreamingAborted(e) ==
    /\ pc[e] = "buffering"
    /\ pc' = [pc EXCEPT ![e] = "aborted"]
    /\ UNCHANGED <<capturedRequest, isStreaming, upBody, upEncoding, upPos,
                   chunks, parser, resStatus, resBody, resEnded, clientVars,
                   storageVars, wsVars, parserVars, httpVars, serverState>>

Failed == <<"failed">>

\* zlib.gunzip: a complete gzip member (deflated payload, then its trailer)
\* inflates to the JSON text; anything else is an error
Gunzip(buffer) ==
    IF buffer = <<"gz:{resp}", "crc">> THEN <<"{resp", "}">> ELSE Failed

\* decompressBuffer gone wrong: the buffer is handed on as it came
decompressBufferAsIs(buffer, encoding) == buffer

decompressBuffer(buffer, encoding) ==
    IF encoding = "gzip" THEN Gunzip(buffer) ELSE buffer

\* JSON.parse of a non-streaming response body: a message, an error object
\* (which has none of the keys of a message), or Invalid when it throws
JSONParseBody(text) ==
    IF text = <<"{resp", "}">>
    THEN [keys |-> {"content", "stop_reason", "usage", "model"},
          content |-> <<[type |-> "text", text |-> <<"a">>]>>,
          stop_reason |-> "end_turn",
          usage |-> [input_tokens |-> 5, output_tokens |-> 2],
          model |-> "m"]
    ELSE IF text = <<"{error}">>
    THEN [keys |-> {},
          content |-> <<>>,
          stop_reason |-> "undefined",
          usage |-> ZeroUsage,
          model |-> "undefined"]
    ELSE Invalid

\* the CapturedResponse built from the parsed body (server.ts:213-221)
BufferedResponse(requestId, responseBody) ==
    [request_id |-> requestId,
     content |-> IF "content" \in responseBody.keys THEN responseBody.content
                 ELSE <<>>,
     stop_reason |-> IF "stop_reason" \in responseBody.keys
                     THEN responseBody.stop_reason ELSE "undefined",
     usage |-> IF "usage" \in responseBody.keys THEN responseBody.usage
               ELSE ZeroUsage,
     model |-> IF "model" \in responseBody.keys THEN responseBody.model
               ELSE "unknown"]

\* the settlement gone wrong: the record is logged but not broadcast
decompressSettledUnpublished(e) ==
    /\ pc[e] = "decompressing"
    /\ LET decompressed == decompressBuffer(Concat(chunks[e]), upEncoding[e])
           responseBody == JSONParseBody(decompressed)
       IN IF decompressed # Failed /\ responseBody # Invalid
          THEN /\ logResponse(BufferedResponse(e, responseBody))
               /\ UNCHANGED wsVars
          ELSE UNCHANGED <<storageVars, wsVars>>
    /\ pc' = [pc EXCEPT ![e] = "done"]
    /\ UNCHANGED <<capturedRequest, isStreaming, upBody, upEncoding, upPos,
                   chunks, parser, resStatus, resBody, resEnded,
                   clientVars, parserVars, httpVars, serverState>>

\* the promise of decompressBuffer settles (server.ts:209-232)
decompressSettled(e) ==
    /\ pc[e] = "decompressing"
    /\ LET decompressed == decompressBuffer(Concat(chunks[e]), upEncoding[e])
           responseBody == JSONParseBody(decompressed)
       IN IF decompressed # Failed /\ responseBody # Invalid
          THEN LET capturedResponse == BufferedResponse(e, responseBody)
               IN /\ logResponse(capturedResponse)
                  /\ broadcast([type |-> "response", data |-> capturedResponse])
          ELSE UNCHANGED <<storageVars, wsVars>>
    /\ pc' = [pc EXCEPT ![e] = "done"]
    /\ UNCHANGED <<capturedRequest, isStreaming, upBody, upEncoding, upPos,
                   chunks, parser, resStatus, resBody, resEnded,
                   clientVars, parserVars, httpVars, serverState>>

(***************************************************************************)
(* The client of an exchange                                               *)
(***************************************************************************)
\* the client accepts the bytes written to it so far
clientDrain(e) ==
    /\ clientOpen[e]
    /\ clientUnacked[e] > 0
    /\ clientUnacked' = [clientUnacked EXCEPT ![e] = 0]
    /\ UNCHANGED <<clientOpen, exchangeVars, storageVars, wsVars, parserVars, serverState>>

\* the client closes its connection while the upstream stream is being
\* relayed; no handler of the server listens for it
clientDisconnect(e) ==
    /\ clientOpen[e]
    /\ pc[e] = "streaming"
    /\ clientOpen' = [clientOpen EXCEPT ![e] = FALSE]
    /\ clientUnacked' = [clientUnacked EXCEPT ![e] = 0]
    /\ UNCHANGED <<exchangeVars, storageVars, wsVars, parserVars, serverState>>

(***************************************************************************)
(* DELETE /api/captures                                                    *)
(***************************************************************************)
clearCaptures ==
    /\ serverState = "listening"
    /\ clears < MaxClears
    /\ clear
    /\ UNCHANGED <<exchangeVars, clientVars, wsVars, parserVars, serverState>>

(***************************************************************************)
(* fs.WriteStream: what a stream does on its own after write()             *)
(***************************************************************************)
\* the stream's fs.open completes: flags 'a' create the file if it is missing
streamOpened(k) ==
    /\ streamState[k] = "opening"
    /\ streamState' = [streamState EXCEPT ![k] = "open"]
    /\ fileExists' = TRUE
    /\ UNCHANGED <<logFile, initialFile, writeStream, streamQueue, appended,
                   clears, clearedAt,
                   exchangeVars, clientVars, wsVars, parserVars, serverState>>

\* the stream writes out its n oldest queued lines, to the file it opened
streamFlushed(k) ==
    /\ streamState[k] \in {"open", "orphan"}
    /\ \E n \in 1..Len(streamQueue[k]) :
        /\ logFile' = IF streamState[k] = "open"
                      THEN logFile \o Concat(SubSeq(streamQueue[k], 1, n))
                      ELSE logFile
        /\ streamQueue' = [streamQueue EXCEPT ![k] = SubSeq(@, n + 1, Len(@))]
    /\ UNCHANGED <<fileExists, initialFile, writeStream, streamState, appended,
                   clears, clearedAt,
                   exchangeVars, clientVars, wsVars, parserVars, serverState>>

StreamStep == \E k \in Streams : streamOpened(k) \/ streamFlushed(k)

(***************************************************************************)
(* WebSocket subscribers (server.ts:291-300)                               *)
(***************************************************************************)
\* wss.on('connection'): sockets connect in the order of their numbers
wsConnection(s) ==
    /\ serverState = "listening"
    /\ wsState[s] = "none"
    /\ s > 1 => wsState[s - 1] # "none"
    /\ wsState' = [wsState EXCEPT ![s] = "open"]
    /\ wsClients' = wsClients \cup {s}
    /\ UNCHANGED <<wsSent, wsBuffered, published,
                   exchangeVars, clientVars, storageVars, parserVars, serverState>>

\* a closing handshake starts or the connection drops: readyState leaves OPEN
\* before the 'close' event is emitted
wsClosing(s) ==
    /\ wsState[s] = "open"
    /\ wsState' = [wsState EXCEPT ![s] = "closing"]
    /\ UNCHANGED <<wsClients, wsSent, wsBuffered, published,
                   exchangeVars, clientVars, storageVars, parserVars, serverState>>

\* the 'close' handler gone wrong: the socket stays in the set
wsCloseLeavesClient(s) ==
    /\ wsState[s] = "closing"
    /\ wsState' = [wsState EXCEPT ![s] = "closed"]
    /\ wsBuffered' = [wsBuffered EXCEPT ![s] = 0]
    /\ UNCHANGED <<wsClients, wsSent, published,
                   exchangeVars, clientVars, storageVars, parserVars, serverState>>

\* ws.on('close')
wsClose(s) ==
    /\ wsState[s] = "closing"
    /\ wsState' = [wsState EXCEPT ![s] = "closed"]
    /\ wsClients' = wsClients \ {s}
    /\ wsBuffered' = [wsBuffered EXCEPT ![s] = 0]
    /\ UNCHANGED <<wsSent, published,
                   exchangeVars, clientVars, storageVars, parserVars, serverState>>

\* the socket transmits what send() queued
wsDrain(s) ==
    /\ wsState[s] = "open"
    /\ wsBuffered[s] > 0
    /\ wsBuffered' = [wsBuffered EXCEPT ![s] = 0]
    /\ UNCHANGED <<wsClients, wsState, wsSent, published,
                   exchangeVars, clientVars, storageVars, parserVars, serverState>>

(***************************************************************************)
(* The proxy server                                                        *)
(***************************************************************************)
HandlersIdle ==
    /\ pc = [e \in Exchanges |-> "idle"]
    /\ capturedRequest = [e \in Exchanges |-> NoRequest]
    /\ isStreaming = [e \in Exchanges |-> FALSE]
    /\ upBody = [e \in Exchanges |-> <<>>]
    /\ upEncoding = [e \in Exchanges |-> "identity"]
    /\ upPos = [e \in Exchanges |-> 0]
    /\ chunks = [e \in Exchanges |-> <<>>]
    /\ parser = [e \in Exchanges |-> NewSSEParser]
    /\ resStatus = [e \in Exchanges |-> 0]
    /\ resBody = [e \in Exchanges |-> <<>>]
    /\ resEnded = [e \in Exchanges |-> FALSE]
    /\ clientOpen = [e \in Exchanges |-> TRUE]
    /\ clientUnacked = [e \in Exchanges |-> 0]
    /\ serverState = "listening"
    /\ clientRequest = [e \in Exchanges |-> NoClientRequest]
    /\ upRequest = [e \in Exchanges |-> NoUpRequest]
    /\ upStatus = [e \in Exchanges |-> 0]
    /\ upHeaders = [e \in Exchanges |-> {}]
    /\ resHeaders = [e \in Exchanges |-> {}]
    /\ wsClients = {}
    /\ wsState = [s \in Sockets |-> "none"]
    /\ wsSent = [s \in Sockets |-> <<>>]
    /\ wsBuffered = [s \in Sockets |-> 0]
    /\ published = <<>>

\* new JSONLStorage(dataDir): no stream yet
NewStorage ==
    /\ writeStream = FALSE
    /\ streamState = [k \in Streams |-> "none"]
    /\ streamQueue = [k \in Streams |-> <<>>]
    /\ appended = <<>>
    /\ clears = 0
    /\ clearedAt = 0

\* the data directory holds no messages.jsonl yet
NoLogFile ==
    /\ logFile = <<>>
    /\ fileExists = FALSE
    /\ initialFile = <<>>

ProxyIdle == HandlersIdle /\ NewStorage /\ NoLogFile

ParserIdle ==
    /\ pStream = <<>>
    /\ pPos = 0
    /\ pParser = NewSSEParser
    /\ pChunks = 0

Init == ProxyIdle /\ ParserIdle

\* one step of exchange e made by the server's handlers
ExchangeStep(e) ==
    \/ handleProxyRequest(e)
    \/ proxyReqError(e)
    \/ proxyResponse(e)
    \/ streamingData(e)
    \/ streamingEnd(e)
    \/ streamingError(e)
    \/ nonStreamingData(e)
    \/ nonStreamingEnd(e)
    \/ nonStreamingAborted(e)
    \/ decompressSettled(e)

\* Concurrent exchanges, the clear endpoint and one dashboard socket, up to
\* the hand-over of each record to the write stream and to the sockets
ProxySockets == {1}

Next ==
    \/ \E e \in Exchanges : ExchangeStep(e)
    \/ clearCaptures
    \/ \E s \in ProxySockets :
        \/ wsConnection(s)
        \/ wsClosing(s)
        \/ wsClose(s)

Spec == Init /\ [][Next]_vars

\* One exchange from its client to the disk: the client may be slow to accept
\* what is written to it and may disconnect, the write streams open and
\* write on their own, and the log may be cleared meanwhile
TeeExchanges == {1}

NextTee ==
    \/ \E e \in TeeExchanges :
        \/ ExchangeStep(e)
        \/ clientDrain(e)
        \/ clientDisconnect(e)
    \/ clearCaptures
    \/ StreamStep

SpecTee == Init /\ [][NextTee]_vars

\* The fan-out on its own: sockets come and go and drain at their own pace
\* while messages are published
Messages ==
    { [type |-> "request", data |-> CapturedRequestOf(1, "{model}")],
      [type |-> "response",
       data |-> StreamedResponse(1, createStreamAccumulator)] }

publish ==
    /\ Len(published) < MaxPublished
    /\ \E message \in Messages : broadcast(message)
    /\ UNCHANGED <<exchangeVars, clientVars, storageVars, parserVars, serverState>>

NextFanout ==
    \/ publish
    \/ \E s \in Sockets :
        \/ wsConnection(s)
        \/ wsClosing(s)
        \/ wsClose(s)
        \/ wsDrain(s)

SpecFanout == Init /\ [][NextFanout]_vars

(***************************************************************************)
(* Feeding one byte stream to a fresh SSEParser in chunks                  *)
(***************************************************************************)
Frames ==
    { <<"data: ", "{ms}", "nl">>,
      <<"data: ", "{bs_text}", "nl">>,
      <<"data: ", "{td:", "a", "}", "nl">>,
      <<"data: ", "{td:", "C3", "A9", "}", "nl">>,
      <<"data: ", "{bx}", "nl">>,
      <<"data: ", "{md}", "nl">>,
      <<"data: ", "{md}">>,
      <<"data: ", "{bad", "nl">>,
      <<"data: ", "[DONE]", "nl">>,
      <<":", "sp", "nl">>,
      <<"event: x", "nl">>,
      <<"sp", "nl">> }

FrameSeqs == UNION { [1..n -> Frames] : n \in 0..MaxFrames }

ByteStreams == { Concat(fs) : fs \in FrameSeqs }

InitParser ==
    /\ pStream \in ByteStreams
    /\ pPos = 0
    /\ pParser = NewSSEParser
    /\ pChunks = 0
    /\ ProxyIdle

\* proxyRes 'data' delivers the next n bytes; the handler decodes them and
\* feeds the parser (server.ts:156-160)
FeedChunk ==
    \E n \in 1..(Len(pStream) - pPos) :
        /\ pParser' = processChunk(pParser,
                         BufferToString(SubSeq(pStream, pPos + 1, pPos + n)))
        /\ pPos' = pPos + n
        /\ pChunks' = pChunks + 1
        /\ UNCHANGED <<pStream, exchangeVars, clientVars, storageVars, wsVars, serverState>>

NextParser == FeedChunk

SpecParser == InitParser /\ [][NextParser]_vars

\* the accumulator a fresh parser holds after the whole stream in one chunk
SingleChunkAccumulator(stream) ==
    processChunk(NewSSEParser, BufferToString(stream)).accumulator

\* the fields of the accumulator that make up the CapturedResponse
ResponseOf(acc) ==
    [content |-> acc.content, stop_reason |-> acc.stopReason,
     usage |-> acc.usage, model |-> acc.model]

\* C3: whatever the chunking, once the whole stream has been fed the
\* accumulator (content, stopReason, usage, model) equals the one obtained by
\* feeding the stream as a single chunk.
C3_ChunkingInvariance ==
    pPos = Len(pStream) =>
        ResponseOf(pParser.accumulator) = ResponseOf(SingleChunkAccumulator(pStream))

(***************************************************************************)
(* Properties                                                              *)
(***************************************************************************)
Range(s) == { s[i] : i \in DOMAIN s }

\* the type and id of every entry handed to writeLine, in order
AppendedIds == [i \in DOMAIN appended |-> <<appended[i].type, EntryId(appended[i])>>]

\* the bytes exchange e has received from the upstream so far
Received(e) == SubSeq(upBody[e], 1, upPos[e])

\* handleStreamingResponse has been entered for exchange e
InStreamingBranch(e) == isStreaming[e] /\ pc[e] \in {"streaming", "done", "errored"}

C2_ResponseFollowsItsRequest ==
    LET log == readAll IN
    \A i \in DOMAIN log :
        log[i].type = "response" =>
            Cardinality({ j \in 1..(i - 1) :
                            /\ log[j].type = "request"
                            /\ log[j].data.id = log[i].data.request_id }) = 1

\* C4: an exchange whose upstream connection failed before any response has
\* answered 502 with the JSON error body; no response record for it was ever
\* appended or broadcast, and the log holds nothing of it but its request.
C4_ConnectFailureGives502 ==
    \A e \in Exchanges :
        pc[e] = "failed" =>
            /\ resStatus[e] = 502
            /\ resBody[e] = ErrorBody
            /\ resEnded[e]
            /\ <<"response", e>> \notin Range(AppendedIds)
            /\ \A i \in DOMAIN published :
                ~(published[i].type = "response" /\ published[i].data.request_id = e)
            /\ LET log == readAll IN
               \A i \in DOMAIN log :
                EntryId(log[i]) = e => log[i] = RequestEntry(capturedRequest[e])
            /\ Cardinality({ i \in DOMAIN appended : AppendedIds[i] = <<"request", e>> }) = 1

C4_Witness ==
    \E e \in Exchanges :
        /\ pc[e] = "failed"
        /\ readAll = <<RequestEntry(capturedRequest[e])>>
        /\ clears = 0

\* C5: when the client has disconnected during a streaming exchange, no
\* response record of that exchange is ever appended to the log or broadcast.
C5_DisconnectDiscardsResponse ==
    \A e \in Exchanges :
        (isStreaming[e] /\ ~clientOpen[e]) =>
            /\ <<"response", e>> \notin Range(AppendedIds)
            /\ \A i \in DOMAIN published :
                ~(published[i].type = "response" /\ published[i].data.request_id = e)

\* C6: after an error of the upstream stream in the streaming branch the
\* client stream is ended and the log holds a response record of the
\* exchange, with stop_reason null.
C6_StreamErrorPersistsPartial ==
    \A e \in Exchanges :
        pc[e] = "errored" =>
            /\ resEnded[e]
            /\ LET log == readAll IN
               \E i \in DOMAIN log :
                /\ log[i].type = "response"
                /\ log[i].data.request_id = e
                /\ log[i].data.stop_reason = "null"

\* C7: the tee applies back-pressure: no further chunk is taken from the
\* upstream while the client has not accepted what was already written, so
\* what the client has not accepted never exceeds the latest chunk.
C7_BackPressure ==
    \A e \in Exchanges :
        (InStreamingBranch(e) /\ chunks[e] # <<>>) =>
            clientUnacked[e] <= Len(Last(chunks[e]))

\* C8: the forwarder of the streaming branch holds no upstream data beyond
\* the current chunk.
C8_NoBufferingBeyondChunk ==
    \A e \in Exchanges :
        InStreamingBranch(e) => Len(chunks[e]) <= 1

\* C9: a connected subscriber is sent, in publish order and with none left
\* out, the messages published since it connected; and a response message
\* is published only after the request message with the same id.
IsSegment(s, t) ==
    \E k \in 0..(Len(t) - Len(s)) : SubSeq(t, k + 1, k + Len(s)) = s

IsSuffix(s, t) ==
    Len(s) <= Len(t) /\ SubSeq(t, Len(t) - Len(s) + 1, Len(t)) = s

RequestPublishedFirst(msgs) ==
    \A i \in DOMAIN msgs :
        msgs[i].type = "response" =>
            \E j \in 1..(i - 1) :
                /\ msgs[j].type = "request"
                /\ msgs[j].data.id = msgs[i].data.request_id

C9_PublishOrder ==
    /\ \A s \in Sockets :
        /\ wsState[s] = "open" => IsSuffix(wsSent[s], published)
        /\ IsSegment(wsSent[s], published)
    /\ RequestPublishedFirst(published)

C9_Witness ==
    \E s \in Sockets :
        /\ wsState[s] = "open"
        /\ Len(wsSent[s]) = 4
        /\ wsSent[s][1].type = "request" /\ wsSent[s][2].type = "request"
        /\ wsSent[s][3].type = "response" /\ wsSent[s][3].data.request_id = 2
        /\ wsSent[s][4].type = "response" /\ wsSent[s][4].data.request_id = 1

\* C10: each subscriber's outbound buffer has a fixed size: it never holds
\* more than OutboundBufferSize messages, a message published while it is
\* full being dropped for that subscriber.
OutboundBufferSize == 2

C10_FixedSizeBufferDrops ==
    \A s \in Sockets : wsBuffered[s] <= OutboundBufferSize

\* C11: a subscriber whose socket is not open is sent nothing by a publish,
\* while every open subscriber is sent the published message; and in every
\* state the subscriber set is the set of sockets that have connected and
\* whose close event has not yet happened.
ConnectedNotClosed == { s \in Sockets : wsState[s] \in {"open", "closing"} }

PublishStep ==
    Len(published') = Len(published) + 1 =>
        \A s \in Sockets :
            IF wsState[s] = "open"
            THEN wsSent'[s] = Append(wsSent[s], Last(published'))
            ELSE wsSent'[s] = wsSent[s]

C11_OnlyOpenSubscribersAreSent ==
    /\ [](wsClients = ConnectedNotClosed)
    /\ [][PublishStep]_vars

C11_Witness ==
    /\ wsState[1] = "closing" /\ 1 \in wsClients
    /\ wsState[2] = "open"
    /\ wsSent[1] # <<>>
    /\ Len(wsSent[1]) < Len(published)
    /\ wsSent[2] = published

\* C12: every exchange that has been taken up has appended exactly one
\* request entry and at most one response entry to the log, whatever its
\* upstream did (failed to connect, answered, sent data, ended, broke off);
\* an exchange not yet taken up has appended nothing.
Appends(type, e) ==
    Cardinality({ i \in DOMAIN appended : AppendedIds[i] = <<type, e>> })

C12_OneRequestAtMostOneResponse ==
    \A e \in Exchanges :
        IF pc[e] = "idle"
        THEN Appends("request", e) = 0 /\ Appends("response", e) = 0
        ELSE /\ Appends("request", e) = 1
             /\ Appends("response", e) <= 1
             /\ pc[e] # "done" => Appends("response", e) = 0

C12_Witness ==
    \E e, f \in Exchanges :
        /\ pc[e] = "done" /\ Appends("request", e) = 1 /\ Appends("response", e) = 1
        /\ pc[f] \in {"errored", "aborted"}
        /\ Appends("request", f) = 1 /\ Appends("response", f) = 0

\* C13: in the streaming branch the normal end of the upstream stream closes
\* the client stream and emits one response record carrying the exchange's
\* id, built from the accumulator, to the log and to the fan-out, all in the
\* step of the 'end' handler; and once the exchange is done exactly one such
\* record has been appended and exactly one published.
PublishedResponses(e) ==
    { i \in DOMAIN published :
        published[i].type = "response" /\ published[i].data.request_id = e }

UpstreamEndStep(e) ==
    (pc[e] = "streaming" /\ pc'[e] = "done") =>
        /\ resEnded'[e]
        /\ appended' = Append(appended,
                        ResponseEntry(StreamedResponse(e, parser[e].accumulator)))
        /\ published' = Append(published,
                        [type |-> "response",
                         data |-> StreamedResponse(e, parser[e].accumulator)])

C13_UpstreamEndEmitsOneResponse ==
    /\ [](\A e \in Exchanges :
            (isStreaming[e] /\ pc[e] = "done") =>
                /\ resEnded[e]
                /\ Appends("response", e) = 1
                /\ Cardinality(PublishedResponses(e)) = 1)
    /\ [][\A e \in Exchanges : UpstreamEndStep(e)]_vars

C13_Witness ==
    \E e \in Exchanges :
        /\ isStreaming[e] /\ pc[e] = "done" /\ ~clientOpen[e]
        /\ resEnded[e]
        /\ Appends("response", e) = 1
        /\ Cardinality(PublishedResponses(e)) = 1

(***************************************************************************)
(* The storage on its own: entries are logged, the streams open and write  *)
(* when they get to it, the log is cleared and read.  The file may have    *)
(* been left by an earlier run of the program, which may have died in the  *)
(* middle of a line.                                                       *)
(***************************************************************************)
EarlierRequest == CapturedRequestOf(0, "{model}")

PartialLine == <<"{", "response", "0", "end_turn">>

InitialFiles ==
    { <<>>,
      JSONStringify(RequestEntry(EarlierRequest)) \o <<"nl">>,
      JSONStringify(RequestEntry(EarlierRequest)) \o <<"nl">> \o PartialLine }

StorageRequests ==
    { CapturedRequestOf(1, "{model}"), CapturedRequestOf(2, "{model,stream:true}") }

StorageResponses ==
    { [request_id |-> 1,
       content |-> <<[type |-> "text", text |-> <<"a", "nl", "a">>]>>,
       stop_reason |-> "end_turn",
       usage |-> [input_tokens |-> 5, output_tokens |-> 2],
       model |-> "m"],
      [request_id |-> 1,
       content |-> <<[type |-> "text", text |-> <<>>],
                     [type |-> "tool_use", id |-> "tu_1", name |-> "Bash",
                      input |-> "{}"]>>,
       stop_reason |-> "null",
       usage |-> ZeroUsage,
       model |-> ""] }

InitStorage ==
    /\ HandlersIdle /\ ParserIdle /\ NewStorage
    /\ initialFile \in InitialFiles
    /\ logFile = initialFile
    /\ fileExists \in (IF initialFile = <<>> THEN BOOLEAN ELSE {TRUE})

storageLogRequest ==
    /\ Len(appended) < MaxAppends
    /\ \E request \in StorageRequests : logRequest(request)
    /\ UNCHANGED <<exchangeVars, clientVars, wsVars, parserVars, serverState>>

storageLogResponse ==
    /\ Len(appended) < MaxAppends
    /\ \E response \in StorageResponses : logResponse(response)
    /\ UNCHANGED <<exchangeVars, clientVars, wsVars, parserVars, serverState>>

NextStorage ==
    \/ storageLogRequest
    \/ storageLogResponse
    \/ clearCaptures
    \/ StreamStep

SpecStorage == InitStorage /\ [][NextStorage]_vars

\* C14: as long as the log has not been cleared, readAll returns the entries
\* the earlier run left, then the entries handed to logRequest/logResponse
\* whose lines have reached the file, in the order they were handed over and
\* each equal to what was logged; a line that does not parse is skipped, and
\* with it the first new entry when the file ended in the middle of a line.
\* Once the stream has written everything out to a file that was empty or
\* missing, readAll returns exactly the entries appended.
InitialEntries ==
    IF initialFile = <<>> THEN <<>> ELSE <<RequestEntry(EarlierRequest)>>

EndsMidLine == initialFile # <<>> /\ Last(initialFile) # "nl"

\* the entries whose lines stream k has written out, k being the only stream
Written(k) == SubSeq(appended, 1, Len(appended) - Len(streamQueue[k]))

C14_ReadAllReturnsAppended ==
    clears = 0 =>
        /\ readAll = InitialEntries \o
                        (IF EndsMidLine /\ Written(1) # <<>>
                         THEN Tail(Written(1)) ELSE Written(1))
        /\ (initialFile = <<>> /\ streamQueue[1] = <<>>) => readAll = appended

C14_Witness ==
    /\ clears = 0
    /\ EndsMidLine
    /\ Len(appended) = MaxAppends /\ streamQueue[1] = <<>>
    /\ Len(readAll) = MaxAppends
    /\ \E i \in DOMAIN readAll :
        /\ readAll[i].type = "response"
        /\ readAll[i].data.content # <<>>
        /\ "nl" \in Range(readAll[i].data.content[1].text)

\* C15: getRequestResponsePairs returns one pair per request entry of the
\* log, in the order of the request entries; the response of a pair is the
\* last response entry of the log whose request_id is the request's id,
\* wherever it stands relative to the request, and null when there is none.
RequestIndexes(entries) == { j \in DOMAIN entries : entries[j].type = "request" }

\* the index in the log of its i-th request entry
NthRequest(entries, i) ==
    CHOOSE j \in RequestIndexes(entries) :
        Cardinality({ h \in RequestIndexes(entries) : h <= j }) = i

ResponseIndexes(entries, id) ==
    { j \in DOMAIN entries :
        entries[j].type = "response" /\ entries[j].data.request_id = id }

Highest(S) == CHOOSE j \in S : \A h \in S : h <= j

PairsAreRight(entries, pairs) ==
    /\ Len(pairs) = Cardinality(RequestIndexes(entries))
    /\ \A i \in DOMAIN pairs :
        LET request == entries[NthRequest(entries, i)].data
            matching == ResponseIndexes(entries, request.id)
        IN /\ pairs[i].request = request
           /\ pairs[i].response = IF matching = {} THEN Null
                                  ELSE entries[Highest(matching)].data

C15_PairsLastResponseWins == PairsAreRight(readAll, getRequestResponsePairs)

C15_Witness ==
    LET entries == readAll
        pairs == getRequestResponsePairs
    IN /\ Len(pairs) = 2
       /\ pairs[1].response = Null
       /\ pairs[2].response # Null
       /\ \E j, h \in ResponseIndexes(entries, pairs[2].request.id) :
            /\ j < h /\ h < NthRequest(entries, 2)
            /\ entries[j] # entries[h]
            /\ pairs[2].response = entries[h].data

\* C16: right after clear() readAll returns the empty list, whatever was
\* appended before; and the entries logged since the last clear() that their
\* stream has written out are in a file that exists again and are returned by
\* readAll, in the order they were logged.
RECURSIVE IsSubsequence(_, _)
IsSubsequence(s, t) ==
    IF s = <<>> THEN TRUE
    ELSE IF t = <<>> THEN FALSE
    ELSE IF Head(s) = Head(t) THEN IsSubsequence(Tail(s), Tail(t))
    ELSE IsSubsequence(s, Tail(t))

\* the entries logged since the last clear() that have left their stream
WrittenSinceClear ==
    SubSeq(appended, clearedAt + 1, Len(appended) - Len(streamQueue[CurrentStream]))

ClearStep == clears' = clears + 1 => ReadFile(fileExists', logFile') = <<>>

C16_ClearThenReadAllIsEmpty ==
    /\ [][ClearStep]_vars
    /\ [](clears >= 1 =>
            /\ WrittenSinceClear # <<>> => fileExists
            /\ IsSubsequence(WrittenSinceClear, readAll))

C16_Witness ==
    /\ clears = 1
    /\ clearedAt >= 1
    /\ Len(appended) > clearedAt
    /\ fileExists
    /\ readAll = SubSeq(appended, clearedAt + 1, Len(appended))

(***************************************************************************)
(* Feeding an SSE stream to a fresh SSEParser one frame per chunk: every   *)
(* call of processChunk handles one event                                  *)
(***************************************************************************)
Frame(payload) == <<"data: ", payload, "nl">>

DeltaFrame(opening, chars) == <<"data: ", opening>> \o chars \o <<"}", "nl">>

EventFrames ==
    { Frame("{ms}"), Frame("{bs_text}"), Frame("{bs_text:a}"),
      DeltaFrame("{td:", <<"a">>), DeltaFrame("{td:", <<"sp", "a">>),
      Frame("{bx}"), Frame("{md}"), Frame("{mstop}"),
      Frame("{bs_tool}"), Frame("{bs_tool_anon}"),
      Frame("{bs_bad}"), Frame("{ms_bad}"),
      DeltaFrame("{jd:", <<"{k:">>), DeltaFrame("{jd:", <<"1}">>) }

\* a message with one text block: its seed, then its deltas
Seeds == { <<>>, <<"a">> }

DeltaTexts == { <<"a">>, <<"sp", "a">> }

DeltaSeqs == UNION { [1..n -> DeltaTexts] : n \in 0..MaxDeltas }

TextMessage(seed, deltas) ==
    Frame("{ms}")
    \o Frame(IF seed = <<>> THEN "{bs_text}" ELSE "{bs_text:a}")
    \o Concat([i \in DOMAIN deltas |-> DeltaFrame("{td:", deltas[i])])
    \o Frame("{bx}") \o Frame("{md}") \o Frame("{mstop}")

EventStreams ==
    { Concat(fs) : fs \in UNION { [1..n -> EventFrames] : n \in 0..MaxEvents } }
    \cup { TextMessage(seed, deltas) : seed \in Seeds, deltas \in DeltaSeqs }

InitEvents ==
    /\ pStream \in EventStreams
    /\ pPos = 0
    /\ pParser = NewSSEParser
    /\ pChunks = 0
    /\ ProxyIdle

\* proxyRes 'data' delivers the bytes up to and including the next newline
FeedFrame ==
    /\ pPos < Len(pStream)
    /\ LET end == CHOOSE i \in (pPos + 1)..Len(pStream) :
                    /\ pStream[i] = "nl"
                    /\ \A j \in (pPos + 1)..(i - 1) : pStream[j] # "nl"
       IN /\ pParser' = processChunk(pParser,
                            BufferToString(SubSeq(pStream, pPos + 1, end)))
          /\ pPos' = end
    /\ pChunks' = pChunks + 1
    /\ UNCHANGED <<pStream, exchangeVars, clientVars, storageVars, wsVars, serverState>>

NextEvents == FeedFrame

SpecEvents == InitEvents /\ [][NextEvents]_vars

\* the events fed so far, in arrival order
FedEvents ==
    LET lines == Front(SplitLines(SubSeq(pStream, 1, pPos), <<>>))
    IN [i \in DOMAIN lines |-> JSONParseEvent(Tail(lines[i]))]

\* C17: after the stream message_start, content_block_start(text), text
\* deltas, content_block_stop, message_delta, message_stop the response has
\* exactly one text block, whose text is the seed of the start block followed
\* by the texts of the deltas in arrival order, the stop_reason of the
\* message_delta, the input_tokens of message_start and the output_tokens of
\* the message_delta.
C17_TextMessageReconstructed ==
    \A seed \in Seeds, deltas \in DeltaSeqs :
        (pStream = TextMessage(seed, deltas) /\ pPos = Len(pStream)) =>
            ResponseOf(pParser.accumulator) =
                [content |-> <<[type |-> "text", text |-> seed \o Concat(deltas)]>>,
                 stop_reason |-> "end_turn",
                 usage |-> [input_tokens |-> 5, output_tokens |-> 2],
                 model |-> "m"]

C17_Witness ==
    /\ pStream = TextMessage(<<"a">>, << <<"sp", "a">>, <<"a">> >>)
    /\ pPos = Len(pStream)
    /\ pParser.accumulator.content =
            <<[type |-> "text", text |-> <<"a", "sp", "a", "a">>]>>
    /\ pParser.accumulator.stopReason = "end_turn"

\* C18: the input of every tool_use block emitted is the JSON value parsed
\* from the concatenation, in arrival order, of the input_json_delta
\* fragments received since the block's content_block_start, and {} when
\* that concatenation is not valid JSON.
LastStart(events) ==
    LET starts == { i \in DOMAIN events : events[i].type = "content_block_start" }
    IN IF starts = {} THEN 0 ELSE Highest(starts)

RECURSIVE JsonFragments(_)
JsonFragments(events) ==
    IF events = <<>> THEN <<>>
    ELSE (IF /\ Head(events).type = "content_block_delta"
             /\ Head(events).delta = "input_json_delta"
          THEN Head(events).chars ELSE <<>>)
         \o JsonFragments(Tail(events))

\* the fragments received since the latest content_block_start
JsonSinceStart(events) ==
    JsonFragments(SubSeq(events, LastStart(events) + 1, Len(events)))

ParsedOrEmpty(json) ==
    IF JSONParseInput(json).parsed THEN JSONParseInput(json).value ELSE "{}"

ToolBlockStep ==
    LET content == pParser.accumulator.content
        grown == pParser'.accumulator.content
    IN (Len(grown) > Len(content) /\ Last(grown).type = "tool_use") =>
            Last(grown).input = ParsedOrEmpty(JsonSinceStart(FedEvents))

C18_ToolInputFromFragments == [][ToolBlockStep]_vars

C18_Witness ==
    /\ pStream = Frame("{bs_tool}") \o DeltaFrame("{jd:", <<"{k:">>)
                    \o DeltaFrame("{jd:", <<"1}">>) \o Frame("{bx}")
    /\ pPos = Len(pStream)
    /\ pParser.accumulator.content =
            <<[type |-> "tool_use", id |-> "tu_1", name |-> "Bash",
               input |-> "{k:1}"]>>

\* C19: every tool_use block in the content has a non-empty id and a
\* non-empty name, and its input is a parsed object or {}.
ParsedObjects == { "obj_a", "{k:1}" }

C19_ToolBlocksHaveIdAndName ==
    \A i \in DOMAIN pParser.accumulator.content :
        LET block == pParser.accumulator.content[i] IN
        block.type = "tool_use" =>
            /\ block.id # ""
            /\ block.name # ""
            /\ block.input \in ParsedObjects \cup {"{}"}

\* C20: content only grows, by one block at its end and only in the step of
\* a content_block_stop event; the blocks already in it stay as they are and
\* where they are, so there are never more blocks than stop events and the
\* blocks stand in the order of the stops that emitted them.
StopEvents(events) ==
    Cardinality({ i \in DOMAIN events : events[i].type = "content_block_stop" })

ContentStep ==
    LET content == pParser.accumulator.content
        grown == pParser'.accumulator.content
    IN /\ IsPrefix(content, grown)
       /\ Len(grown) <= Len(content) + 1
       /\ Len(grown) = Len(content) + 1 =>
            Last(FedEvents').type = "content_block_stop"

C20_ContentGrowsByAppending ==
    /\ [](Len(pParser.accumulator.content) <= StopEvents(FedEvents))
    /\ [][ContentStep]_vars

C20_Witness ==
    /\ pPos = Len(pStream)
    /\ StopEvents(FedEvents) = 2
    /\ Len(pParser.accumulator.content) = 2
    /\ pParser.accumulator.content[1].type = "tool_use"
    /\ pParser.accumulator.content[2].type = "text"

\* C21: the blocks of the content are in increasing order of the index their
\* content_block_start carried, and every block was emitted by a
\* content_block_stop naming the index the block was started with.
\* Emitted(events, open, index): for every stop event that found a block
\* open, the index of that block's start and the index the stop named.
RECURSIVE Emitted(_, _, _)
Emitted(events, open, index) ==
    IF events = <<>> THEN <<>>
    ELSE LET ev == Head(events) IN
         IF ev.type = "content_block_start"
         THEN Emitted(Tail(events), TRUE, ev.index)
         ELSE IF ev.type = "content_block_stop"
         THEN (IF open THEN <<[started |-> index, stopped |-> ev.index]>> ELSE <<>>)
              \o Emitted(Tail(events), FALSE, index)
         ELSE Emitted(Tail(events), open, index)

C21_BlocksInIndexOrder ==
    LET emitted == Emitted(FedEvents, FALSE, -1) IN
    /\ Len(pParser.accumulator.content) = Len(emitted)
    /\ \A i, j \in DOMAIN emitted :
        i < j => emitted[i].started < emitted[j].started
    /\ \A i \in DOMAIN emitted : emitted[i].started = emitted[i].stopped

\* C22: when the upstream stream is a message_start frame and then ends, the
\* response record of the exchange, as handed to the log, as broadcast and
\* as read back from the file, has empty content and the usage that
\* message_start carried.
MessageStartUsage == JSONParseEvent(<<"{ms}">>).usage

OnlyMessageStart(e) ==
    isStreaming[e] /\ pc[e] = "done" /\ upBody[e] = <<"data: ", "{ms}", "nl">>

ResponsesOf(entries, e) ==
    { entries[i].data : i \in { j \in DOMAIN entries :
                                  /\ entries[j].type = "response"
                                  /\ entries[j].data.request_id = e } }

C22_OnlyMessageStart ==
    \A e \in Exchanges :
        OnlyMessageStart(e) =>
            /\ ResponsesOf(appended, e) # {}
            /\ \A response \in ResponsesOf(appended, e) \cup ResponsesOf(published, e)
                               \cup ResponsesOf(readAll, e) :
                /\ response.content = <<>>
                /\ response.usage = MessageStartUsage

C22_Witness ==
    \E e \in Exchanges :
        /\ OnlyMessageStart(e)
        /\ Len(chunks[e]) >= 2
        /\ ResponsesOf(readAll, e) # {}
        /\ MessageStartUsage.input_tokens > 0

(***************************************************************************)
(* The HTTP messages of one exchange: what the client sends, what express  *)
(* makes of it, what goes upstream and what comes back                     *)
(***************************************************************************)
KeepAliveHeaders ==
    JSONHeaders \cup { <<"connection", "keep-alive">>, <<"keep-alive", "timeout=5">>,
                       <<"transfer-encoding", "chunked">>, <<"x-api-key", "sk">> }

UntypedHeaders == { <<"host", "localhost:3456">>, <<"x-api-key", "sk">> }

\* the bodies a client may send, with their lengths in bytes
IngressBodies ==
    { [body |-> "{model,stream:true}", length |-> 1],
      [body |-> "{model}", length |-> 1],
      [body |-> "not json", length |-> 1],
      [body |-> "", length |-> 0],
      [body |-> "{model}", length |-> BodyLimit],
      [body |-> "{model}", length |-> BodyLimit + 1],
      [body |-> "not json", length |-> BodyLimit + 1] }

IngressRequests ==
    { [method |-> m, pathname |-> "/v1/messages", search |-> q, headers |-> h,
       body |-> b.body, length |-> b.length] :
        m \in {"POST", "GET"}, q \in {"", "?beta=true"},
        h \in {JSONHeaders, KeepAliveHeaders, UntypedHeaders},
        b \in IngressBodies }

\* express.raw passes a PayloadTooLargeError to next(); express answers with
\* the error's status and no route handler runs
payloadTooLarge(e, req) ==
    /\ serverState = "listening"
    /\ pc[e] = "idle"
    /\ clientRequest' = [clientRequest EXCEPT ![e] = req]
    /\ resStatus' = [resStatus EXCEPT ![e] = 413]
    /\ resBody' = [resBody EXCEPT ![e] = <<"PayloadTooLargeError">>]
    /\ resEnded' = [resEnded EXCEPT ![e] = TRUE]
    /\ pc' = [pc EXCEPT ![e] = "rejected"]
    /\ UNCHANGED <<capturedRequest, isStreaming, upBody, upEncoding, upPos,
                   chunks, parser, upRequest, upStatus, upHeaders, resHeaders,
                   clientVars, storageVars, wsVars, parserVars, serverState>>

\* a request arrives: the middleware of setupMiddleware, then the route
requestArrives(e) ==
    \E req \in IngressRequests :
        IF PayloadTooLarge(req) THEN payloadTooLarge(e, req) ELSE proxyRequest(e, req)

ConnectionHeaders ==
    { <<"connection", "keep-alive">>, <<"keep-alive", "timeout=5">>,
      <<"transfer-encoding", "chunked">>, <<"request-id", "req_1">> }

\* what the upstream may answer, with its status and headers
IngressResponses(streaming) ==
    { [statusCode |-> st, headers |-> r.headers \cup extra, body |-> r.body] :
        st \in {200, 429},
        extra \in { ConnectionHeaders,
                    { <<"x-note", "">>, <<"access-control-allow-origin", "https://console">> } },
        r \in (IF streaming THEN StreamingResponses
               ELSE NonStreamingResponses
                    \cup { [statusCode |-> 429, headers |-> PlainHeaders,
                            body |-> <<"{error}">>] }) }

upstreamAnswers(e) == \E r \in IngressResponses(isStreaming[e]) : proxyRes(e, r)

IngressExchanges == {1}

NextIngress ==
    \E e \in IngressExchanges :
        \/ requestArrives(e)
        \/ upstreamAnswers(e)
        \/ proxyReqError(e)
        \/ streamingData(e)
        \/ streamingEnd(e)
        \/ streamingError(e)
        \/ nonStreamingData(e)
        \/ nonStreamingEnd(e)
        \/ nonStreamingAborted(e)
        \/ decompressSettled(e)

SpecIngress == Init /\ [][NextIngress]_vars

\* the exchange's request reached the route handler with a body that is not
\* JSON
NotJSON(e) ==
    /\ pc[e] \notin {"idle", "rejected"}
    /\ clientRequest[e].body = "not json"

\* C23: a request whose body is not valid JSON is not failed: its record,
\* with model "unknown" and no messages, is logged and broadcast, and the
\* body goes upstream byte for byte.
C23_InvalidJSONForwarded ==
    \A e \in Exchanges : NotJSON(e) =>
        /\ capturedRequest[e].model = "unknown"
        /\ capturedRequest[e].messages = "[]"
        /\ RequestEntry(capturedRequest[e]) \in Range(appended)
        /\ [type |-> "request", data |-> capturedRequest[e]] \in Range(published)
        /\ upRequest[e] # NoUpRequest
        /\ upRequest[e].body = clientRequest[e].body

\* the same, for the requests that carry a content-type
C23_TypedInvalidJSONForwarded ==
    \A e \in Exchanges :
        NotJSON(e) /\ HasHeader(clientRequest[e].headers, "content-type") =>
            /\ capturedRequest[e].model = "unknown"
            /\ capturedRequest[e].messages = "[]"
            /\ RequestEntry(capturedRequest[e]) \in Range(appended)
            /\ [type |-> "request", data |-> capturedRequest[e]] \in Range(published)
            /\ upRequest[e].body = clientRequest[e].body

\* exchange e's request has arrived with a body longer than the limit
TooLarge(e) == pc[e] # "idle" /\ clientRequest[e].length > BodyLimit

\* nothing was logged or broadcast for exchange e and no upstream request
\* was made for it
NothingDoneFor(e) ==
    /\ upRequest[e] = NoUpRequest
    /\ \A i \in DOMAIN appended : EntryId(appended[i]) # e
    /\ \A i \in DOMAIN published : EntryId(published[i]) # e

\* C24: a request whose body is longer than 50 MiB is answered 413; no
\* upstream request is made for it, nothing is logged and nothing is
\* broadcast.
C24_TooLargeRejected ==
    \A e \in Exchanges : TooLarge(e) => resStatus[e] = 413 /\ NothingDoneFor(e)

\* the same, for the requests that carry a content-type
C24_TypedTooLargeRejected ==
    \A e \in Exchanges :
        TooLarge(e) /\ HasHeader(clientRequest[e].headers, "content-type") =>
            resStatus[e] = 413 /\ NothingDoneFor(e)

\* a body of exactly the limit is let through
C24_AtLimitAccepted ==
    \A e \in Exchanges :
        pc[e] # "idle" /\ clientRequest[e].length = BodyLimit => resStatus[e] # 413

\* the upstream body of exchange e as the capture side decodes it, computed
\* from what the upstream sent
DecodedBody(e) ==
    LET encoding == ContentEncoding(upHeaders[e])
        text == IF encoding = "gzip"
                THEN (IF upBody[e] = <<"gz:{resp}", "crc">> THEN <<"{resp", "}">> ELSE Failed)
                ELSE upBody[e]
    IN IF text = <<"{resp", "}">> THEN [ok |-> TRUE, content |-> <<[type |-> "text", text |-> <<"a">>]>>]
       ELSE IF text = <<"{error}">> THEN [ok |-> TRUE, content |-> <<>>]
       ELSE [ok |-> FALSE, content |-> <<>>]

\* the 'end' handler of the non-streaming branch has run for exchange e
Buffered(e) == ~isStreaming[e] /\ pc[e] \in {"decompressing", "done"}

\* C25: in the non-streaming branch the client has the upstream's bytes, as
\* the upstream sent them, before the body is decoded, and keeps them
\* whatever the decoding gives; a body that decodes gives one response record
\* with the content of the decoded JSON, a body that does not gives none.
C25_NonStreamingBody ==
    \A e \in Exchanges : Buffered(e) =>
        /\ resEnded[e] /\ resBody[e] = upBody[e]
        /\ pc[e] = "decompressing" => ResponsesOf(appended, e) = {}
        /\ pc[e] = "done" /\ DecodedBody(e).ok =>
            /\ ResponsesOf(appended, e) # {}
            /\ \A response \in ResponsesOf(appended, e) \cup ResponsesOf(published, e) :
                response.content = DecodedBody(e).content
        /\ pc[e] = "done" /\ ~DecodedBody(e).ok =>
            ResponsesOf(appended, e) \cup ResponsesOf(published, e) = {}

\* a gzipped body that came in two chunks went to the client compressed and
\* gave a response record
C25_Witness ==
    \E e \in Exchanges :
        /\ Buffered(e) /\ pc[e] = "done"
        /\ ContentEncoding(upHeaders[e]) = "gzip"
        /\ Len(chunks[e]) = 2
        /\ resBody[e] = <<"gz:{resp}", "crc">>
        /\ ResponsesOf(appended, e) # {}

\* a damaged body went to the client as it came and gave no record
C25_WitnessFailed ==
    \E e \in Exchanges :
        /\ Buffered(e) /\ pc[e] = "done"
        /\ ~DecodedBody(e).ok
        /\ resBody[e] = <<"gz:{resp}">>

(***************************************************************************)
(* A failing capture log                                                   *)
(***************************************************************************)
\* where an exchange stands when no handler of it will run again
Settled == {"done", "failed", "errored", "aborted", "rejected"}

\* a stream's open or write fails (EACCES, ENOSPC, EIO): the fs.WriteStream
\* emits 'error'.  getWriteStream attaches no 'error' listener and
\* stream.write is given no callback (jsonl.ts:28-33, 53-56), and nothing
\* listens for uncaughtException: the emit throws and the process exits.
\* Every connection is dropped; no handler runs again and no request is
\* accepted.
streamErrored(k) ==
    /\ streamState[k] \in {"opening", "open", "orphan"}
    /\ streamQueue[k] # <<>>
    /\ \E e \in Exchanges : pc[e] # "crashed"
    /\ streamState' = [j \in Streams |->
                        IF streamState[j] \in {"opening", "open", "orphan"}
                        THEN "errored" ELSE streamState[j]]
    /\ pc' = [e \in Exchanges |-> IF pc[e] \in Settled THEN pc[e] ELSE "crashed"]
    /\ clientOpen' = [e \in Exchanges |-> FALSE]
    /\ UNCHANGED <<logFile, fileExists, initialFile, writeStream, streamQueue,
                   appended, clears, clearedAt,
                   capturedRequest, isStreaming, upBody, upEncoding, upPos,
                   chunks, parser, resStatus, resBody, resEnded, httpVars,
                   clientUnacked, wsVars, parserVars, serverState>>

FailureExchanges == {1, 2}

NextLogFailure ==
    \/ \E e \in FailureExchanges : ExchangeStep(e)
    \/ StreamStep
    \/ \E k \in Streams : streamErrored(k)

SpecLogFailure == Init /\ [][NextLogFailure]_vars

\* a stream of the log has failed
LogWriteFailed == \E k \in Streams : streamState[k] = "errored"

\* C26: a failed write to the capture log aborts no exchange, neither one in
\* flight nor a later one: every exchange still stands where its own
\* handlers left it.
C26_LogFailureHarmless ==
    LogWriteFailed => \A e \in Exchanges : pc[e] # "crashed"

(***************************************************************************)
(* ProxyServer.stop (server.ts:317-334)                                    *)
(***************************************************************************)
\* JSONLStorage.close(): the stream is ended and dropped; what it still
\* holds is written out by the stream on its own
close == writeStream' = FALSE

\* stop(): storage.close(), wss.close(), server.close(callback), one after
\* the other in the same tick.  wss.close() and server.close() stop the
\* accepting of connections; the sockets and exchanges that exist go on.
stop ==
    /\ serverState = "listening"
    /\ close
    /\ serverState' = "closing"
    /\ UNCHANGED <<logFile, fileExists, initialFile, streamState, streamQueue,
                   appended, clears, clearedAt,
                   exchangeVars, clientVars, wsVars, parserVars>>

\* exchange e holds a connection of the HTTP server
ConnectionOpen(e) == pc[e] # "idle" /\ ~resEnded[e] /\ clientOpen[e]

\* the callback of server.close(): every connection of the server has
\* ended, those of the exchanges and those upgraded to WebSockets
serverClosed ==
    /\ serverState = "closing"
    /\ \A e \in Exchanges : ~ConnectionOpen(e)
    /\ \A s \in Sockets : wsState[s] \notin {"open", "closing"}
    /\ serverState' = "closed"
    /\ UNCHANGED <<exchangeVars, clientVars, storageVars, wsVars, parserVars>>

ShutdownExchanges == {1}

ShutdownSockets == {1}

NextShutdown ==
    \/ \E e \in ShutdownExchanges : ExchangeStep(e)
    \/ StreamStep
    \/ \E s \in ShutdownSockets : wsConnection(s) \/ wsClosing(s) \/ wsClose(s)
    \/ stop
    \/ serverClosed

SpecShutdown == Init /\ [][NextShutdown]_vars

\* a handler of exchange e has yet to run
InFlight(e) == pc[e] \notin Settled \cup {"idle"}

\* C27: once shutdown has closed the log file, no handler is in flight: the
\* log is closed only after the handlers have completed.
C27_LogClosedAfterHandlers ==
    serverState # "listening" => \A e \in Exchanges : ~InFlight(e)

(***************************************************************************)
(* An upstream that stalls                                                 *)
(***************************************************************************)
\* One exchange and the log's stream.  What the server does on its own is
\* done in the end: a promise settles, a stream opens and writes.  What the
\* upstream does (accept, answer, send, end, fail) it may never do; the
\* handlers set no timer on proxyReq, on its socket or on proxyRes, so no
\* step stands for a timeout.
StalledExchanges == {1}

NextStalled ==
    \/ \E e \in StalledExchanges : ExchangeStep(e)
    \/ StreamStep

SpecStalled ==
    /\ Init
    /\ [][NextStalled]_vars
    /\ \A e \in StalledExchanges : WF_vars(decompressSettled(e))
    /\ WF_vars(StreamStep)

\* C28: every exchange that went upstream is answered in the end: the
\* response to its client is ended, with the upstream's response or with
\* the 502 of a timeout.
C28_EventuallyAnswered ==
    \A e \in StalledExchanges : (pc[e] = "connecting") ~> resEnded[e]

\* the headers of a message without the connection-level ones
EndToEnd(headers) == { h \in headers : h[1] \notin HopByHop }

\* the request of exchange e went upstream
WentUpstream(e) == upRequest[e] # NoUpRequest

\* the upstream's status and headers were forwarded for exchange e
Answered(e) == pc[e] \in {"streaming", "buffering", "decompressing", "done", "errored", "aborted"}

\* the upstream request carries the client's headers, Host replaced and the
\* three connection-level headers removed
RequestHeadersPassed(e) ==
    upRequest[e].headers =
        { h \in EndToEnd(clientRequest[e].headers) : h[1] # "host" }
            \cup { <<"host", ANTHROPIC_API_HOST>> }

\* the client response carries the upstream's status, every header in
\* passed of the upstream unchanged, and none of the three
ResponseHeadersPassed(e, passed) ==
    /\ resStatus[e] = upStatus[e]
    /\ passed \subseteq resHeaders[e]
    /\ EndToEnd(resHeaders[e]) = resHeaders[e]

\* C29: the upstream request carries the client's headers with Host set to
\* the upstream host and connection, keep-alive and transfer-encoding
\* removed; the client response carries the upstream's status and the
\* upstream's headers without those three; every other header is passed
\* unchanged.
C29_HeadersPassedThrough ==
    \A e \in Exchanges :
        /\ WentUpstream(e) => RequestHeadersPassed(e)
        /\ Answered(e) => ResponseHeadersPassed(e, EndToEnd(upHeaders[e]))

\* the same, for the upstream headers whose value is not empty
C29_ValuedHeadersPassedThrough ==
    \A e \in Exchanges :
        /\ WentUpstream(e) => RequestHeadersPassed(e)
        /\ Answered(e) =>
            ResponseHeadersPassed(e, { h \in EndToEnd(upHeaders[e]) : h[2] # "" })

\* C30: the request sent upstream has the method, the path and the query
\* string of the client's request.
C30_TargetPreserved ==
    \A e \in Exchanges : WentUpstream(e) =>
        /\ upRequest[e].method = clientRequest[e].method
        /\ upRequest[e].path = clientRequest[e].pathname
        /\ upRequest[e].search = clientRequest[e].search

\* the method and the path alone
C30_MethodAndPathPreserved ==
    \A e \in Exchanges : WentUpstream(e) =>
        /\ upRequest[e].method = clientRequest[e].method
        /\ upRequest[e].path = clientRequest[e].pathname

\* the parser a fresh SSEParser becomes when it is fed the chunks cs, one
\* processChunk call per chunk, and nothing else
RECURSIVE FedAlone(_, _)
FedAlone(this, cs) ==
    IF cs = <<>> THEN this
    ELSE FedAlone(processChunk(this, BufferToString(Head(cs))), Tail(cs))

\* the position in entries of the response record of exchange e (0: none)
ResponseAt(entries, e) ==
    IF \E i \in DOMAIN entries :
            entries[i].type = "response" /\ entries[i].data.request_id = e
    THEN CHOOSE i \in DOMAIN entries :
            entries[i].type = "response" /\ entries[i].data.request_id = e
    ELSE 0

\* C31: with several exchanges in flight, each exchange's parser is the one
\* a fresh parser becomes when fed that exchange's chunks alone, and the
\* response record of an exchange carries its own id and the content,
\* stop_reason, usage and model of that parser.
C31_ExchangesDoNotMix ==
    \A e \in Exchanges : InStreamingBranch(e) =>
        /\ parser[e] = FedAlone(NewSSEParser, chunks[e])
        /\ pc[e] = "done" =>
            /\ Concat(chunks[e]) = upBody[e]
            /\ ResponsesOf(appended, e) =
                { StreamedResponse(e, FedAlone(NewSSEParser, chunks[e]).accumulator) }
            /\ ResponsesOf(published, e) = ResponsesOf(appended, e)

\* two streaming exchanges with different upstream bodies overlapped: the
\* one accepted second finished first, and the first came in two chunks
C31_Witness ==
    /\ InStreamingBranch(1) /\ InStreamingBranch(2)
    /\ pc[1] = "done" /\ pc[2] = "done"
    /\ upBody[1] # upBody[2]
    /\ Len(chunks[1]) >= 2
    /\ ResponseAt(appended, 2) < ResponseAt(appended, 1)

\* the event of the frame the step feeds: the payload between "data: " and
\* the newline
FedEvent == JSONParseEvent(SubSeq(pStream, pPos + 2, pPos' - 1))

\* the step feeds the parser an event of the given type
Feeds(type) == pPos' # pPos /\ FedEvent.type = type

\* a content_block_stop that finds no block open changes none of content,
\* stopReason, usage, model and messageId
StrayStopStep ==
    Feeds("content_block_stop") /\ pParser.accumulator.currentBlock = NoBlock =>
        /\ pParser'.accumulator.content = pParser.accumulator.content
        /\ pParser'.accumulator.stopReason = pParser.accumulator.stopReason
        /\ pParser'.accumulator.usage = pParser.accumulator.usage
        /\ pParser'.accumulator.model = pParser.accumulator.model
        /\ pParser'.accumulator.messageId = pParser.accumulator.messageId

\* C32: a content_block_stop received while no block is open is ignored: it
\* leaves content, stopReason, usage, model and messageId as they were and
\* adds no block.
C32_StrayStopIgnored == [][StrayStopStep]_vars

\* message_start, a text block started and stopped, then a second stop: the
\* second stop found no block open and the content still has the one block
C32_Witness ==
    /\ pPos = Len(pStream)
    /\ Len(FedEvents) = 4
    /\ FedEvents[1].type = "message_start"
    /\ FedEvents[2] = JSONParseEvent(<<"{bs_text:a}">>)
    /\ FedEvents[3].type = "content_block_stop"
    /\ FedEvents[4].type = "content_block_stop"
    /\ pParser.accumulator.content = <<[type |-> "text", text |-> <<"a">>]>>
    /\ pParser.accumulator.model = "m"

\* a complete line that is a frame whose payload is not valid JSON
MalformedLine(line) ==
    LET trimmed == Trim(line) IN
    /\ trimmed # <<>>
    /\ Head(trimmed) = "data: "
    /\ Tail(trimmed) \notin { <<>>, <<"[DONE]">> }
    /\ JSONParseEvent(Tail(trimmed)) = Invalid

WithoutMalformed(lines) == SelectSeq(lines, LAMBDA line : ~MalformedLine(line))

\* the complete lines a processChunk call handles: those of the buffer
\* followed by the decoded chunk
LinesOfStep ==
    Front(SplitLines(pParser.buffer
                     \o BufferToString(SubSeq(pStream, pPos + 1, pPos')), <<>>))

\* every processChunk call leaves the accumulator it would leave had the
\* malformed frames among its lines not been there; a call whose lines are
\* all malformed leaves the accumulator as it was
MalformedStep ==
    pPos' # pPos =>
        /\ pParser'.accumulator =
            ProcessLines(pParser.accumulator, WithoutMalformed(LinesOfStep))
        /\ WithoutMalformed(LinesOfStep) = <<>> =>
            pParser'.accumulator = pParser.accumulator

\* C33: a complete frame whose payload is not valid JSON changes nothing in
\* the accumulator, and the frames after it, in the same chunk or in later
\* ones, are processed as if it had not been there.
C33_MalformedFrameSkipped == [][MalformedStep]_vars

\* message_start, a malformed frame and message_delta came in two chunks or
\* more: both sound frames took effect
C33_Witness ==
    /\ pStream = <<"data: ", "{ms}", "nl", "data: ", "{bad", "nl",
                   "data: ", "{md}", "nl">>
    /\ pPos = Len(pStream)
    /\ pChunks >= 2
    /\ pParser.accumulator.model = "m"
    /\ pParser.accumulator.stopReason = "end_turn"

(***************************************************************************)
(* An upstream socket that fails after the response has begun              *)
(***************************************************************************)
\* res.headersSent: the head of the client response has been written out,
\* which the first res.write, res.send or res.end does
headersSent(e) == resBody[e] # <<>> \/ resEnded[e]

\* proxyReq.on('error') once proxyRes exists: the upstream socket fails
\* (ECONNRESET, a TLS or parse error) while the body is on its way, and
\* http.ClientRequest emits 'error' on proxyReq then as well.  The handler
\* (server.ts:134-137) looks at nothing: res.status(502) is assigned, and
\* res.json sends the error body if the head is still unsent; if it was
\* sent, res.json throws ERR_HTTP_HEADERS_SENT inside the listener, nothing
\* catches it and the process exits.
proxyReqErrorLate(e) ==
    /\ pc[e] \in {"streaming", "buffering"}
    /\ resStatus' = [resStatus EXCEPT ![e] = 502]
    /\ IF headersSent(e)
       THEN /\ pc' = [x \in Exchanges |-> IF pc[x] \in Settled THEN pc[x] ELSE "crashed"]
            /\ clientOpen' = [x \in Exchanges |-> FALSE]
            /\ UNCHANGED <<resBody, resEnded>>
       ELSE /\ resBody' = [resBody EXCEPT ![e] = ErrorBody]
            /\ resEnded' = [resEnded EXCEPT ![e] = TRUE]
            /\ pc' = [pc EXCEPT ![e] = "failed"]
            /\ UNCHANGED clientOpen
    /\ UNCHANGED <<capturedRequest, isStreaming, upBody, upEncoding, upPos,
                   chunks, parser, httpVars, clientUnacked,
                   storageVars, wsVars, parserVars, serverState>>

SocketErrorExchanges == {1, 2}

NextSocketError ==
    \E e \in SocketErrorExchanges :
        \/ ExchangeStep(e)
        \/ proxyReqErrorLate(e)

SpecSocketError == Init /\ [][NextSocketError]_vars

\* the status of a client response, once set, stays what it is
StatusStep ==
    \A e \in Exchanges : resStatus[e] # 0 => resStatus'[e] = resStatus[e]

\* C34: the response to the client is started at most once: no 502 is
\* written after the upstream's status and headers were forwarded, and no
\* upstream status is forwarded after a 502.
C34_ResponseStartedOnce == [][StatusStep]_vars

\* the second half alone: after a 502 nothing else is forwarded
C34_NothingAfter502 ==
    [][\A e \in Exchanges : resStatus[e] = 502 =>
            /\ resStatus'[e] = 502
            /\ resBody'[e] = resBody[e]
            /\ resHeaders'[e] = resHeaders[e]]_vars

(***************************************************************************)
(* clear() against writes still pending in the stream it closes            *)
(***************************************************************************)
\* the entries handed to the log since the last clear()
AppendedSinceClear == SubSeq(appended, clearedAt + 1, Len(appended))

\* C35: once clear() has returned, readAll returns only entries that were
\* appended after that clear, in every interleaving of clear with appends and
\* with the opening and flushing of the stream that clear closed.
C35_ClearedEntriesStayGone ==
    clears >= 1 => IsSubsequence(readAll, AppendedSinceClear)

\* the same for the stream that had opened the file before clear() ran: what
\* it still flushes goes to the unlinked file
C35_OpenedStreamStaysOut ==
    (clears >= 1 /\ \A k \in 1..clears : streamState[k] \in {"none", "orphan"})
        => IsSubsequence(readAll, AppendedSinceClear)


(***************************************************************************)
(* The log and the broadcast, record by record                             *)
(***************************************************************************)
\* the type and id of every message handed to broadcast, in order
PublishedIds ==
    [i \in DOMAIN published |->
        <<published[i].type,
          IF published[i].type = "request" THEN published[i].data.id
          ELSE published[i].data.request_id>>]

\* C36: in every state, whatever the interleaving of the exchanges, the
\* messages broadcast so far are, by type and id and in order, the entries
\* handed to the log so far: no record is broadcast that was not handed to the
\* log first, and none is logged without being broadcast in the same handler.
C36_BroadcastFollowsLog == PublishedIds = AppendedIds

\* two exchanges overlap: the second is answered first, one by a stream and
\* one by a buffered body
C36_Witness ==
    /\ PublishedIds = <<<<"request", 1>>, <<"request", 2>>,
                        <<"response", 2>>, <<"response", 1>>>>
    /\ AppendedIds = PublishedIds
    /\ isStreaming[1] /\ ~isStreaming[2]


(***************************************************************************)
(* An upstream stream that ends in the middle of a frame                   *)
(***************************************************************************)
\* SSE bodies whose last frame may lack its newline
EOFBodies ==
    { <<"data: ", "{ms}", "nl", "data: ", "{md}">>,
      <<"data: ", "{ms}", "nl", "data: ", "{md}", "nl">>,
      <<"data: ", "{bs_text}", "nl", "data: ", "{td:", "a", "}", "nl",
        "data: ", "{bx}">>,
      <<"data: ", "{bs_text}", "nl", "data: ", "{td:", "a", "}", "nl",
        "data: ", "{bx}", "nl">>,
      <<"data: ", "{ms}">> }

upstreamEndsMidFrame(e) ==
    /\ isStreaming[e]
    /\ \E body \in EOFBodies :
        proxyRes(e, [statusCode |-> 200, headers |-> SSEHeaders, body |-> body])

EOFExchanges == {1}

NextEOF ==
    \E e \in EOFExchanges :
        \/ ExchangeStep(e)
        \/ upstreamEndsMidFrame(e)

SpecEOF == Init /\ [][NextEOF]_vars

\* the lines of a body that a newline ended
TerminatedLines(body) == Front(SplitLines(body, <<>>))

\* what follows the last newline of a body
Unterminated(body) == Last(SplitLines(body, <<>>))

\* C37: the record of a streaming exchange that ended normally is the one of
\* the accumulator after the newline-terminated lines of the upstream body
\* and nothing else: what followed the last newline is still in the parser's
\* buffer and is in no part of the record.
C37_UnterminatedFrameDropped ==
    \A e \in Exchanges : (isStreaming[e] /\ pc[e] = "done") =>
        /\ parser[e].buffer = Unterminated(upBody[e])
        /\ ResponsesOf(appended, e) =
            { StreamedResponse(e, ProcessLines(createStreamAccumulator,
                                               TerminatedLines(upBody[e]))) }

\* a stream ended right after a message_delta frame without its newline: the
\* record has the model of the message_start but no stop_reason
C37_Witness ==
    /\ isStreaming[1] /\ pc[1] = "done"
    /\ Unterminated(upBody[1]) = <<"data: ", "{md}">>
    /\ \E r \in ResponsesOf(appended, 1) :
        /\ r.model = "m"
        /\ r.stop_reason = "null"
        /\ r.usage.output_tokens = 0


(***************************************************************************)
(* Frames whose JSON parses but whose processing throws                    *)
(***************************************************************************)
\* processStreamEvent throws on the event: it reads a property of a missing
\* message or content_block
Raises(ev) ==
    \/ ev.type = "message_start" /\ ev.message = Undefined
    \/ ev.type = "content_block_start" /\ ev.content_block = Undefined

RaisingStep ==
    (pPos' # pPos /\ Raises(FedEvent)) =>
        pParser'.accumulator = pParser.accumulator

\* C38: a frame whose payload parses but whose processing raises an error
\* leaves the accumulator exactly as it was before the frame, an open block
\* included.
C38_RaisingFrameHasNoEffect == [][RaisingStep]_vars

\* the same for a message_start without a message, which throws at its
\* first statement
C38_RaisingMessageStartHasNoEffect ==
    [][(Feeds("message_start") /\ Raises(FedEvent)) =>
            pParser'.accumulator = pParser.accumulator]_vars


(***************************************************************************)
(* Deltas that arrive while no block is open                               *)
(***************************************************************************)
\* the events without the content_block_delta events that arrive before the
\* first content_block_start or between a content_block_stop and the next
\* content_block_start
RECURSIVE WithoutStrayDeltas(_, _)
WithoutStrayDeltas(evs, open) ==
    IF evs = <<>> THEN <<>>
    ELSE LET ev == Head(evs) IN
         IF ev.type = "content_block_delta" /\ ~open
         THEN WithoutStrayDeltas(Tail(evs), open)
         ELSE <<ev>> \o WithoutStrayDeltas(Tail(evs),
                            IF ev.type = "content_block_start" THEN TRUE
                            ELSE IF ev.type = "content_block_stop" THEN FALSE
                            ELSE open)

RECURSIVE ProcessEvents(_, _)
ProcessEvents(acc, evs) ==
    IF evs = <<>> THEN acc
    ELSE ProcessEvents(processStreamEvent(acc, Head(evs)), Tail(evs))

\* C39: the reconstructed content is the one the same events give without
\* the deltas that arrived while no block was open: their text and partial
\* JSON are in no block.
C39_StrayDeltasLeaveNoTrace ==
    pParser.accumulator.content =
        ProcessEvents(createStreamAccumulator,
                      WithoutStrayDeltas(FedEvents, FALSE)).content

\* a text delta before the first content_block_start, then a text block with
\* a delta of its own: the block has the text of its own delta only
C39_Witness ==
    /\ pPos = Len(pStream)
    /\ Len(FedEvents) = 4
    /\ FedEvents[1].type = "content_block_delta" /\ FedEvents[1].chars = <<"a">>
    /\ FedEvents[2] = JSONParseEvent(<<"{bs_text}">>)
    /\ FedEvents[3].type = "content_block_delta" /\ FedEvents[3].chars = <<"sp", "a">>
    /\ FedEvents[4].type = "content_block_stop"
    /\ pParser.accumulator.content = <<[type |-> "text", text |-> <<"sp", "a">>]>>


(***************************************************************************)
(* stop() with dashboards connected                                        *)
(***************************************************************************)
\* The shutdown with the callback of server.close() run as soon as the
\* server can run it.  The subscribers close their sockets when they choose
\* to, or never: stop() closes none of them.
SpecStopping ==
    /\ Init
    /\ [][NextShutdown]_vars
    /\ WF_vars(serverClosed)

\* stop() has been called and the exchanges that were in flight then have
\* finished
ExchangesFinished ==
    serverState = "closing" /\ \A e \in Exchanges : ~ConnectionOpen(e)

\* C40: once stop() has been called and the exchanges in flight at that time
\* have finished, stop() resolves in the end, also when WebSocket
\* subscribers were connected at the time of the call.
C40_StopResolves == ExchangesFinished ~> (serverState = "closed")

\* the same when no subscriber is connected any more
C40_StopResolvesWithoutSubscribers ==
    (ExchangesFinished /\ \A s \in Sockets : wsState[s] \notin {"open", "closing"})
        ~> (serverState = "closed")

====
